---- MODULE Spec2Model ----
(***************************************************************************)
(* A model of the ACIR construction context (AcirContext) of the Noir      *)
(* compiler: the value table, the affine arithmetic, the bounded-integer   *)
(* layer (euclidean and signed division, truncation, range checks) and     *)
(* finalisation.                                                           *)
(*                                                                         *)
(* The prime field is scaled down so that TLC can enumerate it: the        *)
(* modulus is a 7-bit prime where the program uses a 254-bit one, and the  *)
(* native integer width (u128 in the program) is 4 bits, so that, as in    *)
(* the program, twice the native width exceeds the field's bit length and  *)
(* the native width itself stays well below it.                           *)
(***************************************************************************)
EXTENDS Integers, Sequences, FiniteSets, TLC

(***************************************************************************)
(* Field elements                                                          *)
(***************************************************************************)

\* F::modulus(): a prime
Modulus == 127

\* the width of the native integer type used for folding (u128)
NativeBits == 4

\* the half width used to split a native-width operand (2^64 in the program)
HalfNativeBits == 2

F == 0 .. (Modulus - 1)

Pow2(n) == 2 ^ n

\* bit length of a natural number; 0 has no bits
RECURSIVE BitLen(_)
BitLen(x) == IF x = 0 THEN 0 ELSE 1 + BitLen(x \div 2)

\* F::max_num_bits(): the bit length of the modulus
MaxNumBits == BitLen(Modulus)

\* FieldElement::num_bits
NumBits(x) == BitLen(x)

FAdd(a, b) == (a + b) % Modulus
FNeg(a) == (Modulus - a) % Modulus
FSub(a, b) == FAdd(a, FNeg(b))
FMul(a, b) == (a * b) % Modulus

\* F::inverse: zero maps to zero
FInverse(a) == IF a = 0 THEN 0 ELSE CHOOSE x \in F : FMul(x, a) = 1

\* F::from_be_bytes_reduce of the bytes of a natural number
FromBytesReduce(n) == n % Modulus

\* FieldElement::to_u128: the low bits of the element
ToU128(x) == x % Pow2(NativeBits)

(***************************************************************************)
(* Expressions: mul_terms <<c, wl, wr>>, linear_combinations <<c, w>>, q_c *)
(***************************************************************************)

\* Let([x \in {e} |-> body]) is body with x bound to the value of e: the
\* bodies of the operations bind the result of each call they make this way,
\* in the order of the source.
Let(binding) == binding[CHOOSE x \in DOMAIN binding : TRUE]

Expression(m, l, c) == [mul |-> m, lin |-> l, qc |-> c]

ExprDefault == [mul |-> <<>>, lin |-> <<>>, qc |-> 0]

ExprFromConst(c) == Expression(<<>>, <<>>, c)

ExprFromWitness(w) == Expression(<<>>, << <<1, w>> >>, 0)

ExprIsConst(e) == e.mul = <<>> /\ e.lin = <<>>

ExprIsZero(e) == e = ExprDefault

ExprIsLinear(e) == e.mul = <<>>

ExprIsDegreeOneUnivariate(e) == ExprIsLinear(e) /\ Len(e.lin) = 1

\* Expression::to_witness: Some(w) exactly for 1*w + 0
ExprIsWitness(e) ==
    ExprIsDegreeOneUnivariate(e) /\ e.lin[1][1] = 1 /\ e.qc = 0

ExprWitness(e) == e.lin[1][2]

\* Expression::width, as the count of linear and multiplicative terms
ExprWidth(e) == Len(e.lin) + Len(e.mul)

ExprNeg(e) ==
    Expression([i \in 1 .. Len(e.mul) |-> <<FNeg(e.mul[i][1]), e.mul[i][2], e.mul[i][3]>>],
               [i \in 1 .. Len(e.lin) |-> <<FNeg(e.lin[i][1]), e.lin[i][2]>>],
               FNeg(e.qc))

\* &Expression * F: every coefficient scaled, no term dropped
ExprScale(e, k) ==
    Expression([i \in 1 .. Len(e.mul) |-> <<FMul(e.mul[i][1], k), e.mul[i][2], e.mul[i][3]>>],
               [i \in 1 .. Len(e.lin) |-> <<FMul(e.lin[i][1], k), e.lin[i][2]>>],
               FMul(e.qc, k))

PushNonZero(t, s) == IF t[1] = 0 THEN s ELSE <<t>> \o s

\* the order of terms <<coefficient, witness>> and <<coefficient, witness,
\* witness>> by their witnesses
TermLess(s, t) == s[2] < t[2] \/ (s[2] = t[2] /\ Len(s) = 3 /\ s[3] < t[3])

\* the merge of two sorted lists of terms, a + k*b, dropping the terms that cancel
RECURSIVE MergeTerms(_, _, _)
MergeTerms(a, b, k) ==
    IF b = <<>> THEN a
    ELSE IF a = <<>> \/ TermLess(Head(b), Head(a))
        THEN PushNonZero([Head(b) EXCEPT ![1] = FMul(@, k)], MergeTerms(a, Tail(b), k))
    ELSE IF TermLess(Head(a), Head(b))
        THEN PushNonZero(Head(a), MergeTerms(Tail(a), b, k))
    ELSE PushNonZero([Head(a) EXCEPT ![1] = FAdd(@, FMul(Head(b)[1], k))],
                     MergeTerms(Tail(a), Tail(b), k))

\* Expression::add_mul: a + k*b
ExprAddMul(a, k, b) ==
    IF k = 0 THEN a
    ELSE IF ExprIsConst(a)
        THEN [ExprScale(b, k) EXCEPT !.qc = FAdd(@, a.qc)]
    ELSE IF ExprIsConst(b)
        THEN [a EXCEPT !.qc = FAdd(@, FMul(k, b.qc))]
    ELSE Expression(MergeTerms(a.mul, b.mul, k), MergeTerms(a.lin, b.lin, k),
                    FAdd(a.qc, FMul(k, b.qc)))

ExprAdd(a, b) == ExprAddMul(a, 1, b)

ExprSub(a, b) == ExprAddMul(a, FNeg(1), b)

\* insertion of a term into a list sorted by key, before its equals (stable sort)
RECURSIVE InsertTerm(_, _)
InsertTerm(t, s) ==
    IF s = <<>> THEN <<t>>
    ELSE IF TermLess(Head(s), t) THEN <<Head(s)>> \o InsertTerm(t, Tail(s))
    ELSE <<t>> \o s

RECURSIVE SortTerms(_)
SortTerms(s) == IF s = <<>> THEN <<>> ELSE InsertTerm(Head(s), SortTerms(Tail(s)))

\* Expression::sort
ExprSort(e) == Expression(SortTerms(e.mul), SortTerms(e.lin), e.qc)

(***************************************************************************)
(* Value forms (AcirVarData) and opcodes                                   *)
(***************************************************************************)

Const(c) == [tag |-> "Const", c |-> c]

Witness(w) == [tag |-> "Witness", w |-> w]

Expr(e) == [tag |-> "Expr", e |-> e]

\* AcirVarData::to_expression
ToExpression(d) ==
    IF d.tag = "Const" THEN ExprFromConst(d.c)
    ELSE IF d.tag = "Witness" THEN ExprFromWitness(d.w)
    ELSE d.e

\* impl From<Expression> for AcirVarData: prefer the simpler variants
DataFromExpr(e) ==
    IF ExprIsConst(e) THEN Const(e.qc)
    ELSE IF ExprIsWitness(e) THEN Witness(ExprWitness(e))
    ELSE Expr(e)

\* ExpressionWidth: 0 stands for Unbounded, k > 0 for Bounded { width: k }
Unbounded == 0

\* fits_in_one_identity
fits_in_one_identity(e, width) ==
    IF width = Unbounded THEN TRUE
    ELSE IF Len(e.mul) > 1 THEN FALSE
    ELSE ExprWidth(e) <= width

AssertZeroOp(e) == [op |-> "AssertZero", e |-> e]

RangeOp(w, bits) == [op |-> "Range", w |-> w, bits |-> bits]

\* a Brillig call: e is the predicate expression
BrilligOp(func, pred, inputs, outputs) ==
    [op |-> "BrilligCall", e |-> pred, func |-> func, inputs |-> inputs, outputs |-> outputs]

\* a black-box call of a bitwise function on two witnesses of bits bits
BlackBoxOp(func, inputs, bits, outputs) ==
    [op |-> "BlackBox", func |-> func, inputs |-> inputs, bits |-> bits, outputs |-> outputs]

(***************************************************************************)
(* The context.  vars: AcirVar -> AcirVarData; constant_witnesses: F ->    *)
(* Witness; opcodes, assertion_payloads and the witness counter belong to  *)
(* the embedded GeneratedAcir (acir_ir).  wkind records, for each witness  *)
(* allocated, how it was produced (an input, an oracle output, or bound to *)
(* an expression by an emitted opcode).  status is "ok" until an operation *)
(* returns an error ("err") or aborts ("panic"); nothing runs afterwards.  *)
(***************************************************************************)

\* AcirContext::new
NewContext ==
    [vars |-> << >>,
     constant_witnesses |-> << >>,
     opcodes |-> << >>,
     wkind |-> << >>,
     assertion_payloads |-> << >>,
     expression_width |-> Unbounded,
     warnings |-> << >>,
     status |-> "ok"]

\* the result of an operation: the context after it and the value returned
R(c, v) == [c |-> c, v |-> v]

IsOk(c) == c.status = "ok"

Fail(c, how) == IF IsOk(c) THEN [c EXCEPT !.status = how] ELSE c

\* set_expression_width
set_expression_width(c, width) == [c EXCEPT !.expression_width = width]

\* GeneratedAcir::next_witness_index (witnesses are numbered from 0)
next_witness_index(c, kind, def) ==
    R([c EXCEPT !.wkind = Append(@, [kind |-> kind, e |-> def])], Len(c.wkind))

\* GeneratedAcir::push_opcode
push_opcode(c, op) == [c EXCEPT !.opcodes = Append(@, op)]

\* GeneratedAcir::assert_is_zero
assert_is_zero(c, e) == push_opcode(c, AssertZeroOp(e))

\* GeneratedAcir::get_or_create_witness: a witness expression is returned as
\* it is, any other gets a fresh witness bound to it by an opcode
get_or_create_witness(c, e) ==
    IF ExprIsWitness(e) THEN R(c, ExprWitness(e))
    ELSE Let([n \in {next_witness_index(c, "derived", e)} |->
         R(assert_is_zero(n.c, ExprSub(e, ExprFromWitness(n.v))), n.v)])

\* GeneratedAcir::range_constraint
range_constraint(c, w, bits) ==
    IF bits >= MaxNumBits THEN Fail(c, "err")
    ELSE push_opcode(c, RangeOp(w, bits))

\* GeneratedAcir::last_acir_opcode_location: the index of the last opcode
last_acir_opcode_location(c) == Len(c.opcodes) - 1

\* assertion_payloads.insert(last_acir_opcode_location(), payload); the
\* location of an empty opcode list underflows
InsertPayload(c, payload) ==
    IF Len(c.opcodes) = 0 THEN Fail(c, "panic")
    ELSE [c EXCEPT !.assertion_payloads =
             [l \in (DOMAIN @) \cup {last_acir_opcode_location(c)} |->
                 IF l = last_acir_opcode_location(c) THEN payload ELSE @[l]]]

\* add_data: the new id is the size of the table
add_data(c, data) ==
    IF ~IsOk(c) THEN R(c, 0)
    ELSE Let([id \in {Cardinality(DOMAIN c.vars)} |->
         R([c EXCEPT !.vars = [v \in DOMAIN @ \cup {id} |->
                                  IF v = id THEN data ELSE @[v]]],
           id)])

add_constant(c, k) == add_data(c, Const(k))

add_variable(c, kind) ==
    IF ~IsOk(c) THEN R(c, 0)
    ELSE Let([n \in {next_witness_index(c, kind, ExprDefault)} |->
         add_data(n.c, Witness(n.v))])

Declared(c, v) == v \in DOMAIN c.vars

\* self.vars[&var]
VarData(c, v) == IF Declared(c, v) THEN c.vars[v] ELSE Const(0)

\* var_to_expression (the expression only; an undeclared variable is an error)
var_to_expression(c, v) == ToExpression(VarData(c, v))

is_constant(c, v) == VarData(c, v).tag = "Const"

is_constant_one(c, v) == VarData(c, v).tag = "Const" /\ VarData(c, v).c = 1

\* a merge that leaves both table entries as they were
EquivalentDataUnmerged(l, r) == <<l, r>>

\* the table entries mark_variables_equivalent writes for the two variables
EquivalentData(l, r) ==
    IF l.tag = "Const" THEN <<l, l>>
    ELSE IF r.tag = "Const" THEN <<r, r>>
    ELSE IF l.tag = "Witness" /\ r.tag = "Expr" THEN <<l, l>>
    ELSE IF l.tag = "Expr" /\ r.tag = "Witness" THEN <<r, r>>
    ELSE IF l.tag = "Witness" /\ r.tag = "Witness"
        THEN IF l.w <= r.w THEN <<l, l>> ELSE <<r, r>>
    ELSE IF ExprIsLinear(l.e) /\ ExprIsLinear(r.e)
        THEN IF Len(l.e.lin) <= Len(r.e.lin) THEN <<l, l>> ELSE <<r, r>>
    ELSE <<l, r>>

Remove(f, v) == [x \in (DOMAIN f) \ {v} |-> f[x]]

\* a merge that does not put the right-hand side back into the table
mark_variables_equivalent_forgetful(c, lhs, rhs) ==
    IF ~IsOk(c) \/ lhs = rhs \/ ~Declared(c, lhs) \/ ~Declared(c, rhs) THEN c
    ELSE [c EXCEPT !.vars = Remove(@, rhs)]

mark_variables_equivalent(c, lhs, rhs) ==
    IF ~IsOk(c) THEN c
    ELSE IF lhs = rhs THEN c
    ELSE IF ~Declared(c, lhs) THEN Fail(c, "err")
    ELSE IF ~Declared(c, rhs) THEN Fail([c EXCEPT !.vars = Remove(@, lhs)], "err")
    ELSE Let([d \in {EquivalentData(c.vars[lhs], c.vars[rhs])} |->
         [c EXCEPT !.vars = [@ EXCEPT ![lhs] = d[1], ![rhs] = d[2]]]])

\* a var_to_witness that never consults nor fills the cache
var_to_witness_uncached(c, v) ==
    IF ~IsOk(c) THEN R(c, 0)
    ELSE IF ~Declared(c, v) THEN R(Fail(c, "err"), 0)
    ELSE get_or_create_witness(c, var_to_expression(c, v))

\* var_to_witness: a constant's witness comes from (and goes to) the cache
var_to_witness(c, v) ==
    IF ~IsOk(c) THEN R(c, 0)
    ELSE IF ~Declared(c, v) THEN R(Fail(c, "err"), 0)
    ELSE Let([expression \in {var_to_expression(c, v)} |->
         IF ExprIsConst(expression) /\ expression.qc \in DOMAIN c.constant_witnesses
             THEN R(c, c.constant_witnesses[expression.qc])
         ELSE Let([witness \in {get_or_create_witness(c, expression)} |->
              IF ExprIsConst(expression)
                  THEN R([witness.c EXCEPT !.constant_witnesses =
                             [k \in (DOMAIN @) \cup {expression.qc} |->
                                 IF k = expression.qc THEN witness.v ELSE @[k]]],
                         witness.v)
              ELSE witness])])

\* a get_or_create_witness_var that does not merge the two values
get_or_create_witness_var_unmerged(c, v) ==
    IF ~IsOk(c) THEN R(c, 0)
    ELSE IF ~Declared(c, v) THEN R(Fail(c, "err"), 0)
    ELSE IF ExprIsWitness(var_to_expression(c, v)) THEN R(c, v)
    ELSE Let([witness \in {var_to_witness(c, v)} |->
         add_data(witness.c, Witness(witness.v))])

get_or_create_witness_var(c, v) ==
    IF ~IsOk(c) THEN R(c, 0)
    ELSE IF ~Declared(c, v) THEN R(Fail(c, "err"), 0)
    ELSE IF ExprIsWitness(var_to_expression(c, v)) THEN R(c, v)
    ELSE Let([witness \in {var_to_witness(c, v)} |->
         Let([witness_var \in {add_data(witness.c, Witness(witness.v))} |->
         R(mark_variables_equivalent(witness_var.c, v, witness_var.v), witness_var.v)])])

\* neg_var
neg_var(c, v) ==
    IF ~IsOk(c) THEN R(c, 0)
    ELSE IF ~Declared(c, v) THEN R(Fail(c, "panic"), 0)
    ELSE IF c.vars[v].tag = "Const" THEN add_data(c, Const(FNeg(c.vars[v].c)))
    ELSE add_data(c, Expr(ExprNeg(ToExpression(c.vars[v]))))

\* the product of a linear expression and a witness
MulLinearByWitness(e, w) ==
    Expression([i \in 1 .. Len(e.lin) |-> <<e.lin[i][1], e.lin[i][2], w>>],
               << <<e.qc, w>> >>, 0)

\* the product of a linear and a degree-one univariate expression (mul_var)
MulLinearByUnivariate(lin, uni) ==
    Let([rhs_term \in {uni.lin[1]} |->
    ExprAddMul(ExprSort(Expression(
                   [i \in 1 .. Len(lin.lin) |->
                       <<FMul(lin.lin[i][1], rhs_term[1]), lin.lin[i][2], rhs_term[2]>>],
                   << <<FMul(lin.qc, rhs_term[1]), rhs_term[2]>> >>, 0)),
               uni.qc, lin)])

RECURSIVE mul_var(_, _, _)
mul_var(c, lhs, rhs) ==
    IF ~IsOk(c) THEN R(c, 0)
    ELSE IF ~Declared(c, lhs) \/ ~Declared(c, rhs) THEN R(Fail(c, "panic"), 0)
    ELSE LET l == c.vars[lhs]
             r == c.vars[rhs]
         IN  IF l.tag = "Const" /\ l.c = 1 THEN R(c, rhs)
             ELSE IF r.tag = "Const" /\ r.c = 1 THEN R(c, lhs)
             ELSE IF (l.tag = "Const" /\ l.c = 0) \/ (r.tag = "Const" /\ r.c = 0)
                 THEN add_constant(c, 0)
             ELSE IF l.tag = "Const" /\ r.tag = "Const"
                 THEN add_constant(c, FMul(l.c, r.c))
             ELSE IF l.tag = "Witness" /\ r.tag = "Const"
                 THEN add_data(c, DataFromExpr(Expression(<<>>, << <<r.c, l.w>> >>, 0)))
             ELSE IF l.tag = "Const" /\ r.tag = "Witness"
                 THEN add_data(c, DataFromExpr(Expression(<<>>, << <<l.c, r.w>> >>, 0)))
             ELSE IF l.tag = "Const" /\ r.tag = "Expr"
                 THEN add_data(c, DataFromExpr(ExprScale(r.e, l.c)))
             ELSE IF l.tag = "Expr" /\ r.tag = "Const"
                 THEN add_data(c, DataFromExpr(ExprScale(l.e, r.c)))
             ELSE IF l.tag = "Witness" /\ r.tag = "Witness"
                 THEN add_data(c, Expr(Expression(<< <<1, l.w, r.w>> >>, <<>>, 0)))
             ELSE IF l.tag = "Expr" /\ r.tag = "Witness" /\ ExprIsLinear(l.e)
                 THEN add_data(c, Expr(MulLinearByWitness(l.e, r.w)))
             ELSE IF l.tag = "Witness" /\ r.tag = "Expr" /\ ExprIsLinear(r.e)
                 THEN add_data(c, Expr(MulLinearByWitness(r.e, l.w)))
             ELSE IF l.tag = "Expr" /\ r.tag = "Expr" /\ ExprIsLinear(l.e)
                     /\ ExprIsDegreeOneUnivariate(r.e)
                 THEN add_data(c, Expr(MulLinearByUnivariate(l.e, r.e)))
             ELSE IF l.tag = "Expr" /\ r.tag = "Expr" /\ ExprIsLinear(r.e)
                     /\ ExprIsDegreeOneUnivariate(l.e)
                 THEN add_data(c, Expr(MulLinearByUnivariate(r.e, l.e)))
             \* the general case: both operands become witnesses
             ELSE Let([lhs_witness \in {get_or_create_witness_var(c, lhs)} |->
                  Let([rhs_witness \in {get_or_create_witness_var(lhs_witness.c, rhs)} |->
                  mul_var(rhs_witness.c, lhs_witness.v, rhs_witness.v)])])

\* Ordering of two widths
Cmp(a, b) == IF a > b THEN "Greater" ELSE IF a < b THEN "Less" ELSE "Equal"

\* add_var: when the sum does not fit the width, the wider operand (lhs on
\* equal widths) becomes a witness first, then the other
add_var(c, lhs, rhs) ==
    IF ~IsOk(c) THEN R(c, 0)
    ELSE IF ~Declared(c, lhs) \/ ~Declared(c, rhs) THEN R(Fail(c, "err"), 0)
    ELSE
    Let([lhs_expr \in {var_to_expression(c, lhs)} |->
    Let([rhs_expr \in {var_to_expression(c, rhs)} |->
    Let([sum_expr \in {ExprAdd(lhs_expr, rhs_expr)} |->
    IF fits_in_one_identity(sum_expr, c.expression_width)
        THEN add_data(c, DataFromExpr(sum_expr))
    ELSE
    Let([ordering \in {Cmp(ExprWidth(lhs_expr), ExprWidth(rhs_expr))} |->
    Let([first \in {get_or_create_witness_var(c, IF ordering = "Less" THEN rhs ELSE lhs)} |->
    Let([first_expr \in {var_to_expression(first.c, first.v)} |->
    Let([new_sum_expr \in {ExprAdd(IF ordering = "Less" THEN lhs_expr ELSE first_expr,
                                   IF ordering = "Less" THEN first_expr ELSE rhs_expr)} |->
    IF fits_in_one_identity(new_sum_expr, c.expression_width)
        THEN add_data(first.c, DataFromExpr(new_sum_expr))
    ELSE
    Let([second \in {get_or_create_witness_var(first.c,
                                               IF ordering = "Less" THEN lhs ELSE rhs)} |->
    Let([second_expr \in {var_to_expression(second.c, second.v)} |->
    add_data(second.c, DataFromExpr(
        ExprAdd(IF ordering = "Greater" THEN lhs_expr
                ELSE IF ordering = "Less" THEN second_expr ELSE first_expr,
                IF ordering = "Less" THEN rhs_expr ELSE second_expr)))
    ])])])])])])])])])

\* a sub_var that adds rhs instead of its negation
sub_var_unnegated(c, lhs, rhs) == add_var(c, lhs, rhs)

\* sub_var
sub_var(c, lhs, rhs) ==
    Let([neg_rhs \in {neg_var(c, rhs)} |-> add_var(neg_rhs.c, lhs, neg_rhs.v)])

\* add_mul_var: lhs + k * rhs
add_mul_var(c, lhs, k, rhs) ==
    Let([k_var \in {add_constant(c, k)} |->
    Let([intermediate \in {mul_var(k_var.c, k_var.v, rhs)} |->
    add_var(intermediate.c, lhs, intermediate.v)])])

(***************************************************************************)
(* Equality, assertions, inversion                                         *)
(***************************************************************************)

\* no assertion payload (None)
NoPayload == "none"

\* the warning recorded for a provably false assertion
AssertFailed(payload) == [kind |-> "AssertFailed", message |-> payload]

\* GeneratedAcir::is_equal: the witness y with y = 1 - t*z and t*y = 0 for
\* t = lhs - rhs and z the unconstrained inverse of t
is_equal(c, lhs_expr, rhs_expr) ==
    Let([t_expr \in {ExprSub(lhs_expr, rhs_expr)} |->
    Let([t_witness \in {IF ExprIsWitness(t_expr) THEN R(c, ExprWitness(t_expr))
                        ELSE get_or_create_witness(c, ExprScale(t_expr, FNeg(1)))} |->
    Let([z \in {next_witness_index(t_witness.c, "oracle", ExprDefault)} |->
    Let([called \in {push_opcode(z.c, BrilligOp("Inverse", ExprFromConst(1),
                                      <<ExprFromWitness(t_witness.v)>>, <<z.v>>))} |->
    Let([y \in {next_witness_index(called, "derived",
                    Expression(<< <<FNeg(1), t_witness.v, z.v>> >>, <<>>, 1))} |->
    Let([y_is_boolean_constraint \in
            {assert_is_zero(y.c, Expression(<< <<1, t_witness.v, z.v>> >>,
                                            << <<1, y.v>> >>, FNeg(1)))} |->
    R(assert_is_zero(y_is_boolean_constraint,
                     Expression(<< <<1, t_witness.v, y.v>> >>, <<>>, 0)), y.v)])])])])])])

\* eq_var
eq_var(c, lhs, rhs) ==
    IF ~IsOk(c) THEN R(c, 0)
    ELSE IF ~Declared(c, lhs) \/ ~Declared(c, rhs) THEN R(Fail(c, "err"), 0)
    ELSE
    Let([lhs_expr \in {var_to_expression(c, lhs)} |->
    Let([rhs_expr \in {var_to_expression(c, rhs)} |->
    Let([diff_expr \in {ExprSub(lhs_expr, rhs_expr)} |->
    IF ExprIsConst(diff_expr)
        THEN add_constant(c, IF ExprIsZero(diff_expr) THEN 1 ELSE 0)
    ELSE Let([is_equal_witness \in {is_equal(c, lhs_expr, rhs_expr)} |->
         add_data(is_equal_witness.c, Witness(is_equal_witness.v))])])])])

\* an assert_eq_var that records no warning for a provably false assertion
assert_eq_var_unwarned(c, lhs, rhs, assert_message) ==
    IF ~IsOk(c) THEN c
    ELSE IF ~Declared(c, lhs) \/ ~Declared(c, rhs) THEN Fail(c, "err")
    ELSE
    Let([diff_expr \in {ExprSub(var_to_expression(c, lhs), var_to_expression(c, rhs))} |->
    IF ExprIsZero(diff_expr) THEN mark_variables_equivalent(c, lhs, rhs)
    ELSE
    Let([pushed \in {assert_is_zero(c, diff_expr)} |->
    Let([located \in {IF assert_message # NoPayload
                      THEN InsertPayload(pushed, assert_message)
                      ELSE pushed} |->
    mark_variables_equivalent(located, lhs, rhs)])])])

\* assert_eq_var
assert_eq_var(c, lhs, rhs, assert_message) ==
    IF ~IsOk(c) THEN c
    ELSE IF ~Declared(c, lhs) \/ ~Declared(c, rhs) THEN Fail(c, "err")
    ELSE
    Let([diff_expr \in {ExprSub(var_to_expression(c, lhs), var_to_expression(c, rhs))} |->
    IF ExprIsZero(diff_expr) THEN mark_variables_equivalent(c, lhs, rhs)
    ELSE
    \* a constant difference is a failed assertion, reported when flattening
    Let([warned \in {IF ExprIsConst(diff_expr)
                     THEN [c EXCEPT !.warnings = Append(@, AssertFailed(assert_message))]
                     ELSE c} |->
    Let([pushed \in {assert_is_zero(warned, diff_expr)} |->
    Let([located \in {IF assert_message # NoPayload
                      THEN InsertPayload(pushed, assert_message)
                      ELSE pushed} |->
    mark_variables_equivalent(located, lhs, rhs)])])])])

\* a faulty maybe_eq_predicate that forgets to multiply var by the predicate
maybe_eq_predicate_unguarded(c, var, predicate) ==
    assert_eq_var(c, var, predicate, NoPayload)

\* maybe_eq_predicate: var * predicate == predicate
maybe_eq_predicate(c, var, predicate) ==
    Let([pred_mul_var \in {mul_var(c, var, predicate)} |->
    assert_eq_var(pred_mul_var.c, pred_mul_var.v, predicate, NoPayload)])

RECURSIVE AddZeroConstants(_, _)
AddZeroConstants(c, n) ==
    IF n = 0 THEN R(c, <<>>)
    ELSE Let([k \in {add_constant(c, 0)} |->
         Let([rest \in {AddZeroConstants(k.c, n - 1)} |->
         R(rest.c, <<k.v>> \o rest.v)])])

RECURSIVE AddOutputVariables(_, _)
AddOutputVariables(c, n) ==
    IF n = 0 THEN R(c, <<>>)
    ELSE Let([k \in {add_variable(c, "oracle")} |->
         Let([rest \in {AddOutputVariables(k.c, n - 1)} |->
         R(rest.c, <<k.v>> \o rest.v)])])

\* stdlib_brillig_call: the outputs are constant zeros when the predicate is
\* the constant zero, and fresh unconstrained witnesses otherwise
stdlib_brillig_call(c, predicate, func, inputs, n_outputs) ==
    IF ~IsOk(c) THEN R(c, [i \in 1 .. n_outputs |-> 0])
    ELSE IF ExprIsZero(var_to_expression(c, predicate)) THEN AddZeroConstants(c, n_outputs)
    ELSE Let([outs \in {AddOutputVariables(c, n_outputs)} |->
         R(push_opcode(outs.c,
               BrilligOp(func, var_to_expression(c, predicate),
                         [i \in 1 .. Len(inputs) |-> var_to_expression(c, inputs[i])],
                         [i \in 1 .. n_outputs |-> outs.c.vars[outs.v[i]].w])),
           outs.v)])

\* the numeric types
NativeField == [kind |-> "NativeField", bit_size |-> 0]

Unsigned(b) == [kind |-> "Unsigned", bit_size |-> b]

Signed(b) == [kind |-> "Signed", bit_size |-> b]

\* an AcirValue: a variable with its type, an array of values, or a dynamic
\* array of a memory block
Var(acir_var, typ) == [tag |-> "Var", var |-> acir_var, typ |-> typ]

Array(values) == [tag |-> "Array", values |-> values]

DynamicArray(block_id, len, value_types) ==
    [tag |-> "DynamicArray", block_id |-> block_id, len |-> len, value_types |-> value_types]

\* the results of a Brillig call as values: each output is a field variable
BrilligResults(results) ==
    R(results.c, [i \in DOMAIN results.v |-> Var(results.v[i], NativeField)])

\* expect_one_var: the variable of the only value of the results
expect_one_var(results) ==
    IF ~IsOk(results.c) THEN R(results.c, 0)
    ELSE IF Len(results.v) # 1 THEN R(Fail(results.c, "panic"), 0)
    ELSE IF results.v[1].tag # "Var" THEN R(Fail(results.c, "panic"), 0)
    ELSE R(results.c, results.v[1].var)

\* an inv_var that returns its operand
inv_var_uninverted(c, var, predicate) == R(c, var)

\* inv_var
inv_var(c, var, predicate) ==
    IF ~IsOk(c) THEN R(c, 0)
    ELSE IF ~Declared(c, var) THEN R(Fail(c, "panic"), 0)
    ELSE Let([inverted_var \in
                 {IF c.vars[var].tag = "Const"
                      THEN add_data(c, Const(FInverse(c.vars[var].c)))
                  ELSE expect_one_var(BrilligResults(
                           stdlib_brillig_call(c, predicate, "Inverse", <<var>>, 1)))} |->
         Let([should_be_one \in {mul_var(inverted_var.c, inverted_var.v, var)} |->
         R(maybe_eq_predicate(should_be_one.c, should_be_one.v, predicate),
           inverted_var.v)])])

\* assert_neq_var
\* assert_neq_var without the early return of the call that pushed no opcode
assert_neq_var_unguarded(c, lhs, rhs, predicate, assert_message) ==
    Let([diff_var \in {sub_var(c, lhs, rhs)} |->
    Let([inverse \in {inv_var(diff_var.c, diff_var.v, predicate)} |->
    IF ~IsOk(inverse.c) THEN inverse.c
    ELSE IF assert_message # NoPayload THEN InsertPayload(inverse.c, assert_message)
    ELSE inverse.c])])

assert_neq_var(c, lhs, rhs, predicate, assert_message) ==
    Let([diff_var \in {sub_var(c, lhs, rhs)} |->
    Let([old_opcodes_len \in {Len(diff_var.c.opcodes)} |->
    Let([inverse \in {inv_var(diff_var.c, diff_var.v, predicate)} |->
    IF ~IsOk(inverse.c) THEN inverse.c
    ELSE IF assert_message # NoPayload /\ Len(inverse.c.opcodes) - old_opcodes_len # 0
        THEN InsertPayload(inverse.c, assert_message)
    ELSE inverse.c])])])

(***************************************************************************)
(* Bounded integers                                                        *)
(***************************************************************************)

\* a bound check that lets the bit count of the field through
PowerOfTwoFitsInclusive(power) == power <= MaxNumBits

\* power_of_two panics when the field cannot represent 2^power
PowerOfTwoFits(power) == power < MaxNumBits

\* power_of_two: the byte 2^(power % 8) followed by power / 8 zero bytes
power_of_two(power) ==
    FromBytesReduce(Pow2(power % 8) * (256 ^ (power \div 8)))

\* range_constrain_var
range_constrain_var(c, variable, numeric_type, message, predicate) ==
    IF ~IsOk(c) THEN R(c, 0)
    ELSE IF numeric_type.kind = "NativeField" THEN R(c, variable)
    ELSE IF ~Declared(c, variable) THEN R(Fail(c, "err"), 0)
    ELSE IF /\ is_constant(c, variable)
            /\ NumBits(c.vars[variable].c) <= numeric_type.bit_size
        THEN R(c, variable)
    ELSE
             Let([predicate_range \in {mul_var(c, variable, predicate)} |->
             Let([witness_var \in
                     {get_or_create_witness_var(predicate_range.c, predicate_range.v)} |->
             Let([witness \in {var_to_witness(witness_var.c, witness_var.v)} |->
             Let([ranged \in {range_constraint(witness.c, witness.v,
                                               numeric_type.bit_size)} |->
             R(IF IsOk(ranged) /\ message # NoPayload THEN InsertPayload(ranged, message)
               ELSE ranged,
               predicate_range.v)])])])])

\* not_var: (2^bit_size - 1) - x
not_var(c, x, bit_size) ==
    IF ~IsOk(c) THEN R(c, 0)
    ELSE IF ~PowerOfTwoFits(bit_size) THEN R(Fail(c, "panic"), 0)
    ELSE Let([max \in {add_constant(c, FSub(power_of_two(bit_size), 1))} |->
         sub_var(max.c, max.v, x)])

\* a faulty bound_constraint_with_offset that lays down no constraint
bound_constraint_with_offset_skipped(c, lhs, rhs, offset, bits, predicate) == c

\* bound_constraint_with_offset: lhs + offset <= rhs
bound_constraint_with_offset(c, lhs, rhs, offset, bits, predicate) ==
    IF ~IsOk(c) THEN c
    ELSE IF ~(bits < MaxNumBits) THEN Fail(c, "panic")
    ELSE
    Let([sum \in {add_var(c, lhs, offset)} |->
    IF ~IsOk(sum.c) THEN sum.c
    ELSE IF ~Declared(sum.c, rhs) THEN Fail(sum.c, "err")
    ELSE
    Let([rhs_expr \in {var_to_expression(sum.c, rhs)} |->
    \* the optimization when rhs is a non-zero constant of native width
    Let([optimizable \in {/\ ExprIsConst(rhs_expr)
                          /\ NumBits(rhs_expr.qc) <= NativeBits
                          /\ rhs_expr.qc # 0} |->
    Let([moved \in {is_constant_one(sum.c, offset) /\ ToU128(rhs_expr.qc) >= 1} |->
    Let([rhs_offset \in {IF moved THEN ToU128(rhs_expr.qc) - 1
                         ELSE ToU128(rhs_expr.qc)} |->
    \* lhs_offset = lhs, once the offset has moved to rhs
    Let([lhs_offset \in {IF optimizable /\ moved THEN lhs ELSE sum.v} |->
    Let([bit_size \in {BitLen(rhs_offset)} |->
    Let([r \in {(Pow2(bit_size) - 1) - rhs_offset} |->
    IF optimizable /\ bits + BitLen(r) < MaxNumBits
        THEN Let([r_var \in {add_constant(sum.c, r)} |->
             Let([aor \in {add_var(r_var.c, lhs_offset, r_var.v)} |->
             range_constrain_var(aor.c, aor.v, Unsigned(bit_size), NoPayload,
                                 predicate).c])])
    ELSE Let([sub_expression \in {sub_var(sum.c, rhs, lhs_offset)} |->
         range_constrain_var(sub_expression.c, sub_expression.v, Unsigned(bits),
                             NoPayload, predicate).c])])])])])])])])])

\* a failing assertion for an oversized constant divisor that names no cause
DivisorTooLargeUnreported(max_rhs_bits, bit_size) == NoPayload

\* the payload of the failing assertion for an oversized constant divisor
DivisorTooLarge(max_rhs_bits, bit_size) ==
    "attempted to divide by constant larger than operand type: "
        \o ToString(max_rhs_bits) \o " > " \o ToString(bit_size)

\* the first and the second of a returned pair
First(r) == R(r.c, r.v[1])

Second(r) == R(r.c, r.v[2])

\* a faulty guard that never recognizes the constant zero
IsConstZeroNever(e) == FALSE

\* the match guards of euclidean_division_var: to_const() is Some(c) with
\* c.is_zero(), and with c.is_one()
IsConstZero(e) == ExprIsConst(e) /\ e.qc = 0

\* a faulty guard that never recognizes the constant one
IsConstOneNever(e) == FALSE

IsConstOne(e) == ExprIsConst(e) /\ e.qc = 1

\* a faulty division whose remainder forgets the factor rhs_const
DivRemWrongRemainder(lhs_const, rhs_const) ==
    <<lhs_const \div rhs_const, lhs_const - (lhs_const \div rhs_const)>>

\* the compile-time division of two constants, rhs_const not zero: on native
\* integers when both fit, on big integers otherwise
DivRem(lhs_const, rhs_const) ==
    IF NumBits(lhs_const) <= NativeBits /\ NumBits(rhs_const) <= NativeBits
        THEN <<ToU128(lhs_const) \div ToU128(rhs_const),
               ToU128(lhs_const) - (ToU128(lhs_const) \div ToU128(rhs_const)) * ToU128(rhs_const)>>
    ELSE <<FromBytesReduce(lhs_const \div rhs_const), FromBytesReduce(lhs_const % rhs_const)>>

\* euclidean_division_var: (quotient, remainder) with lhs = rhs * q + r
RECURSIVE euclidean_division_var(_, _, _, _, _)
euclidean_division_var(c, lhs, rhs, bit_size, predicate) ==
    IF ~IsOk(c) THEN R(c, <<0, 0>>)
    ELSE
    LET lhs_expr == var_to_expression(c, lhs)
        rhs_expr == var_to_expression(c, rhs)
        predicate_expr == var_to_expression(c, predicate)
        rhs_is_const == ExprIsConst(rhs_expr)
        rhs_const == rhs_expr.qc
        \* the maximum bit size for q and for r and rhs
        max_rhs_bits == IF rhs_is_const THEN NumBits(rhs_const) ELSE bit_size
        max_q_bits == IF rhs_is_const THEN bit_size - max_rhs_bits + 1 ELSE bit_size
        \* floor(p / rhs) of the overflow guard for a constant rhs
        q0_big == Modulus \div rhs_const
    IN
    Let([zero \in {add_constant(c, 0)} |->
    Let([one \in {add_constant(zero.c, 1)} |->
    \* an operand that is not declared, found after the two constants were added
    IF ~Declared(c, lhs) \/ ~Declared(c, rhs) \/ ~Declared(c, predicate)
        THEN R(Fail(one.c, "err"), <<0, 0>>)
    \* the predicate is the constant zero
    ELSE IF IsConstZero(predicate_expr) THEN R(one.c, <<zero.v, zero.v>>)
    \* both operands are constants and rhs is not zero
    ELSE IF ExprIsConst(lhs_expr) /\ rhs_is_const /\ rhs_const # 0
        THEN Let([quotient_var \in {add_constant(one.c, DivRem(lhs_expr.qc, rhs_const)[1])} |->
             Let([remainder_var \in
                     {add_constant(quotient_var.c, DivRem(lhs_expr.qc, rhs_const)[2])} |->
             R(remainder_var.c, <<quotient_var.v, remainder_var.v>>)])])
    \* rhs is the constant one
    ELSE IF IsConstOne(rhs_expr) THEN R(one.c, <<lhs, zero.v>>)
    ELSE
    \* the check that rhs is not zero
    Let([rhs_not_zero \in
            {IF IsConstOne(predicate_expr)
                 THEN inv_var(one.c, rhs, one.v).c
             ELSE Let([rhs_is_zero \in {eq_var(one.c, rhs, zero.v)} |->
                  Let([rhs_is_zero_and_predicate_active \in
                          {mul_var(rhs_is_zero.c, rhs_is_zero.v, predicate)} |->
                  assert_eq_var(rhs_is_zero_and_predicate_active.c,
                                rhs_is_zero_and_predicate_active.v, zero.v, NoPayload)])])} |->
    IF rhs_is_const /\ max_rhs_bits > bit_size
        THEN R(assert_eq_var(rhs_not_zero, zero.v, one.v,
                             DivisorTooLarge(max_rhs_bits, bit_size)),
               <<zero.v, zero.v>>)
    ELSE
    Let([results \in {stdlib_brillig_call(rhs_not_zero, predicate, "Quotient",
                                          <<lhs, rhs>>, 2)} |->
    Let([quotient_var \in {results.v[1]} |->
    Let([remainder_var \in {results.v[2]} |->
    Let([range_q \in {range_constrain_var(results.c, quotient_var, Unsigned(max_q_bits),
                                          NoPayload, one.v).c} |->
    Let([range_r \in {range_constrain_var(range_q, remainder_var, Unsigned(max_rhs_bits),
                                          NoPayload, one.v).c} |->
    \* r < rhs, with the predicate as the offset
    Let([bound_r \in {bound_constraint_with_offset(range_r, remainder_var, rhs, predicate,
                                                   max_rhs_bits, one.v)} |->
    \* lhs * predicate = (rhs * q + r) * predicate
    Let([rhs_times_q \in {mul_var(bound_r, rhs, quotient_var)} |->
    Let([plus_r \in {add_var(rhs_times_q.c, rhs_times_q.v, remainder_var)} |->
    Let([rhs_constraint \in {mul_var(plus_r.c, plus_r.v, predicate)} |->
    Let([lhs_constraint \in {mul_var(rhs_constraint.c, lhs, predicate)} |->
    Let([identity \in {assert_eq_var(lhs_constraint.c, lhs_constraint.v,
                                     rhs_constraint.v, NoPayload)} |->
    IF ~IsOk(identity) THEN R(identity, <<0, 0>>)
    ELSE IF ~(max_q_bits + max_rhs_bits >= MaxNumBits - 1)
        THEN R(identity, <<quotient_var, remainder_var>>)
    ELSE IF rhs_is_const
        \* F::modulus() / 0
        THEN IF rhs_const = 0 THEN R(Fail(identity, "panic"), <<0, 0>>)
             ELSE
             \* the overflow guard for a constant rhs: q <= q0, and r < max_r when q = q0
             Let([q0_var \in {add_constant(identity, FromBytesReduce(q0_big))} |->
             Let([bound_q \in {bound_constraint_with_offset(q0_var.c, quotient_var, q0_var.v,
                                                            zero.v, max_q_bits, one.v)} |->
             Let([size_predicate \in {eq_var(bound_q, q0_var.v, quotient_var)} |->
             Let([size_and_predicate \in
                     {mul_var(size_predicate.c, size_predicate.v, predicate)} |->
             Let([max_r_var \in
                     {add_constant(size_and_predicate.c,
                                   FromBytesReduce(Modulus - q0_big * rhs_const))} |->
             R(bound_constraint_with_offset(max_r_var.c, remainder_var, max_r_var.v, one.v,
                                            NumBits(rhs_const), size_and_predicate.v),
               <<quotient_var, remainder_var>>)])])])])])
    ELSE IF bit_size = NativeBits
        \* the overflow guard for native-width operands: q or rhs is below 2^(width/2)
        THEN Let([two_pow_64 \in {add_constant(identity, power_of_two(HalfNativeBits))} |->
             Let([q_upper \in {euclidean_division_var(two_pow_64.c, quotient_var,
                                                      two_pow_64.v, bit_size, predicate)} |->
             Let([rhs_upper \in {euclidean_division_var(q_upper.c, rhs, two_pow_64.v,
                                                        bit_size, predicate)} |->
             Let([mul_uppers \in {mul_var(rhs_upper.c, q_upper.v[1], rhs_upper.v[1])} |->
             R(assert_eq_var(mul_uppers.c, mul_uppers.v, zero.v, NoPayload),
               <<quotient_var, remainder_var>>)])])])])
    \* unreachable!("overflow in unbounded division")
    ELSE R(Fail(identity, "panic"), <<0, 0>>)])])])])])])])])])])])])])])

\* a faulty two_complement that ignores the sign bit
two_complement_unsigned(c, lhs, leading, max_bit_size) == R(c, lhs)

\* two_complement: lhs if leading is 0, 2^max_bit_size - lhs if it is 1
two_complement(c, lhs, leading, max_bit_size) ==
    IF ~IsOk(c) THEN R(c, 0)
    ELSE IF max_bit_size = 0 \/ ~PowerOfTwoFits(max_bit_size - 1) THEN R(Fail(c, "panic"), 0)
    ELSE Let([max_power_of_two \in {add_constant(c, power_of_two(max_bit_size - 1))} |->
         Let([difference \in {sub_var(max_power_of_two.c, max_power_of_two.v, lhs)} |->
         Let([intermediate \in {mul_var(difference.c, difference.v, leading)} |->
         add_mul_var(intermediate.c, lhs, 2, intermediate.v)])])])

\* black_box_function for the bitwise functions XOR and AND: the container
\* takes a witness for each input and binds a fresh witness to the output
black_box_function(c, func, lhs, rhs, bit_size) ==
    IF ~IsOk(c) THEN R(c, 0)
    ELSE Let([lhs_witness \in {var_to_witness(c, lhs)} |->
         Let([rhs_witness \in {var_to_witness(lhs_witness.c, rhs)} |->
         Let([output \in {next_witness_index(rhs_witness.c, "blackbox", ExprDefault)} |->
         add_data(push_opcode(output.c, BlackBoxOp(func, <<lhs_witness.v, rhs_witness.v>>,
                                                  bit_size, <<output.v>>)),
                  Witness(output.v))])])])

\* an xor_var without the short cut for equal operands
xor_var_no_short_cut(c, lhs, rhs, bit_size) ==
    IF ~IsOk(c) THEN R(c, 0)
    ELSE IF bit_size = 1
        THEN Let([prod \in {mul_var(c, lhs, rhs)} |->
             Let([sum \in {add_var(prod.c, lhs, rhs)} |->
             add_mul_var(sum.c, sum.v, FNeg(2), prod.v)])])
    ELSE black_box_function(c, "XOR", lhs, rhs, bit_size)

\* xor_var with its short cuts; on booleans (bit_size 1) a + b - 2ab
xor_var(c, lhs, rhs, bit_size) ==
    IF ~IsOk(c) THEN R(c, 0)
    ELSE IF ~Declared(c, lhs) \/ ~Declared(c, rhs) THEN R(Fail(c, "err"), 0)
    ELSE IF var_to_expression(c, lhs) = var_to_expression(c, rhs) THEN add_constant(c, 0)
    ELSE IF ExprIsZero(var_to_expression(c, lhs)) THEN R(c, rhs)
    ELSE IF ExprIsZero(var_to_expression(c, rhs)) THEN R(c, lhs)
    ELSE IF bit_size = 1
        THEN Let([prod \in {mul_var(c, lhs, rhs)} |->
             Let([sum \in {add_var(prod.c, lhs, rhs)} |->
             add_mul_var(sum.c, sum.v, FNeg(2), prod.v)])])
    ELSE black_box_function(c, "XOR", lhs, rhs, bit_size)

\* and_var with its short cuts; on booleans (bit_size 1) the product
and_var(c, lhs, rhs, bit_size) ==
    IF ~IsOk(c) THEN R(c, 0)
    ELSE IF ~Declared(c, lhs) \/ ~Declared(c, rhs) THEN R(Fail(c, "err"), 0)
    ELSE IF var_to_expression(c, lhs) = var_to_expression(c, rhs) THEN R(c, lhs)
    ELSE IF ExprIsZero(var_to_expression(c, lhs)) \/ ExprIsZero(var_to_expression(c, rhs))
        THEN add_constant(c, 0)
    ELSE IF bit_size = 1 THEN mul_var(c, lhs, rhs)
    ELSE black_box_function(c, "AND", lhs, rhs, bit_size)

\* or_var: a + b - ab on booleans, NOT ((NOT a) AND (NOT b)) otherwise
or_var(c, lhs, rhs, bit_size) ==
    IF ~IsOk(c) THEN R(c, 0)
    ELSE IF ~Declared(c, lhs) \/ ~Declared(c, rhs) THEN R(Fail(c, "err"), 0)
    ELSE IF ExprIsZero(var_to_expression(c, lhs)) THEN R(c, rhs)
    ELSE IF ExprIsZero(var_to_expression(c, rhs)) THEN R(c, lhs)
    ELSE IF bit_size = 1
        THEN Let([mul \in {mul_var(c, lhs, rhs)} |->
             Let([sum \in {add_var(mul.c, lhs, rhs)} |->
             sub_var(sum.c, sum.v, mul.v)])])
    ELSE Let([a \in {not_var(c, lhs, bit_size)} |->
         Let([b \in {not_var(a.c, rhs, bit_size)} |->
         Let([a_and_b \in {and_var(b.c, a.v, b.v, bit_size)} |->
         not_var(a_and_b.c, a_and_b.v, bit_size)])])])

\* signed_division_var: lhs = rhs * q + r, |r| < |rhs|, r has the sign of lhs
signed_division_var(c, lhs, rhs, bit_size, predicate) ==
    IF ~IsOk(c) THEN R(c, <<0, 0>>)
    ELSE IF bit_size = 0 \/ ~PowerOfTwoFits(bit_size - 1) THEN R(Fail(c, "panic"), <<0, 0>>)
    ELSE
    Let([max_power_of_two \in {add_constant(c, power_of_two(bit_size - 1))} |->
    Let([zero \in {add_constant(max_power_of_two.c, 0)} |->
    Let([one \in {add_constant(zero.c, 1)} |->
    \* the sign bits
    Let([rhs_leading \in {First(euclidean_division_var(one.c, rhs, max_power_of_two.v,
                                                       bit_size, one.v))} |->
    Let([lhs_leading \in {First(euclidean_division_var(rhs_leading.c, lhs,
                                                       max_power_of_two.v, bit_size,
                                                       one.v))} |->
    \* the absolute values
    Let([unsigned_lhs \in {two_complement(lhs_leading.c, lhs, lhs_leading.v, bit_size)} |->
    Let([unsigned_rhs \in {two_complement(unsigned_lhs.c, rhs, rhs_leading.v, bit_size)} |->
    \* the unsigned division
    Let([q1_r1 \in {euclidean_division_var(unsigned_rhs.c, unsigned_lhs.v, unsigned_rhs.v,
                                           bit_size, predicate)} |->
    Let([q1 \in {q1_r1.v[1]} |->
    Let([r1 \in {q1_r1.v[2]} |->
    \* the signs of the results
    Let([q_sign \in {xor_var(q1_r1.c, lhs_leading.v, rhs_leading.v, 1)} |->
    Let([signed_quotient \in {two_complement(q_sign.c, q1, q_sign.v, bit_size)} |->
    Let([signed_remainder \in {two_complement(signed_quotient.c, r1, lhs_leading.v,
                                              bit_size)} |->
    \* a zero result stays zero
    Let([q_is_0 \in {eq_var(signed_remainder.c, q1, zero.v)} |->
    Let([q_is_not_0 \in {not_var(q_is_0.c, q_is_0.v, 1)} |->
    Let([quotient \in {mul_var(q_is_not_0.c, signed_quotient.v, q_is_not_0.v)} |->
    Let([r_is_0 \in {eq_var(quotient.c, r1, zero.v)} |->
    Let([r_is_not_0 \in {not_var(r_is_0.c, r_is_0.v, 1)} |->
    Let([remainder \in {mul_var(r_is_not_0.c, signed_remainder.v, r_is_not_0.v)} |->
    IF ~IsOk(remainder.c) THEN R(remainder.c, <<0, 0>>)
    ELSE R(remainder.c, <<quotient.v, remainder.v>>)
    ])])])])])])])])])])])])])])])])])])])

\* div_var on an unsigned or a signed type: the quotient
div_var(c, lhs, rhs, typ, predicate) ==
    IF typ.kind = "NativeField"
        THEN Let([inv_rhs \in {inv_var(c, rhs, predicate)} |->
             mul_var(inv_rhs.c, lhs, inv_rhs.v)])
    ELSE IF typ.kind = "Unsigned"
        THEN First(euclidean_division_var(c, lhs, rhs, typ.bit_size, predicate))
    ELSE First(signed_division_var(c, lhs, rhs, typ.bit_size, predicate))

\* modulo_var: the remainder
modulo_var(c, lhs, rhs, typ, bit_size, predicate) ==
    IF typ.kind = "Signed"
        THEN Second(signed_division_var(c, lhs, rhs, typ.bit_size, predicate))
    ELSE Second(euclidean_division_var(c, lhs, rhs, bit_size, predicate))

\* truncate_var: lhs mod 2^rhs by euclidean division
truncate_var(c, lhs, rhs, max_bit_size) ==
    IF ~IsOk(c) THEN R(c, 0)
    ELSE IF ~PowerOfTwoFits(rhs) THEN R(Fail(c, "panic"), 0)
    ELSE Let([divisor \in {add_constant(c, power_of_two(rhs))} |->
         Let([one \in {add_constant(divisor.c, 1)} |->
         Second(euclidean_division_var(one.c, lhs, divisor.v, max_bit_size, one.v))])])

\* more_than_eq_var: the quotient of lhs - rhs + 2^max_bits by 2^max_bits
more_than_eq_var(c, lhs, rhs, max_bits) ==
    IF ~IsOk(c) THEN R(c, 0)
    ELSE IF ~(max_bits + 1 < MaxNumBits) THEN R(Fail(c, "panic"), 0)
    ELSE Let([two_max_bits \in {add_constant(c, power_of_two(max_bits))} |->
         Let([diff \in {sub_var(two_max_bits.c, lhs, rhs)} |->
         Let([comparison_evaluation \in {add_var(diff.c, diff.v, two_max_bits.v)} |->
         Let([one \in {add_constant(comparison_evaluation.c, 1)} |->
         First(euclidean_division_var(one.c, comparison_evaluation.v, two_max_bits.v,
                                      max_bits + 1, one.v))])])])])

\* less_than_var without the subtraction from one
less_than_var_unflipped(c, lhs, rhs, bit_size) == more_than_eq_var(c, lhs, rhs, bit_size)

\* less_than_var: one minus more_than_eq_var
less_than_var(c, lhs, rhs, bit_size) ==
    Let([comparison \in {more_than_eq_var(c, lhs, rhs, bit_size)} |->
    Let([one \in {add_constant(comparison.c, 1)} |->
    sub_var(one.c, one.v, comparison.v)])])

\* the builds of the program: with the overflow checks of the language, a
\* subtraction below 0 and a shift by the width of the integer or more
\* panic; without them the subtraction wraps and the shift amount wraps
\* around the width
Builds == {"checked", "wrapping"}

\* 1_u128 << n
ShiftOne(n, build) == Pow2(n % NativeBits)

\* 1_u128 << n overflows
ShiftOverflows(n) == n < 0 \/ n >= NativeBits

\* less_than_signed: the sign of lhs - rhs + 2^bit_count, exclusive-or the
\* signs of the operands differing
less_than_signed(c, lhs, rhs, bit_count, build) ==
    IF ~IsOk(c) THEN R(c, 0)
    \* bit_count - 1 underflows for the bit count 0
    ELSE IF build = "checked" /\ (ShiftOverflows(bit_count - 1) \/ ShiftOverflows(bit_count))
        THEN R(Fail(c, "panic"), 0)
    ELSE
    Let([pow_last \in {add_constant(c, FromBytesReduce(ShiftOne(bit_count - 1, build)))} |->
    Let([pow \in {add_constant(pow_last.c, FromBytesReduce(ShiftOne(bit_count, build)))} |->
    Let([one \in {add_constant(pow.c, 1)} |->
    Let([lhs_sign \in {div_var(one.c, lhs, pow_last.v, Unsigned(bit_count), one.v)} |->
    Let([rhs_sign \in {div_var(lhs_sign.c, rhs, pow_last.v, Unsigned(bit_count), one.v)} |->
    Let([same_sign \in {xor_var(rhs_sign.c, lhs_sign.v, rhs_sign.v, 1)} |->
    Let([no_underflow \in {add_var(same_sign.c, lhs, pow.v)} |->
    Let([diff \in {sub_var(no_underflow.c, no_underflow.v, rhs)} |->
    Let([diff_sign \in {less_than_var(diff.c, diff.v, pow.v, bit_count + 1)} |->
    xor_var(diff_sign.c, diff_sign.v, same_sign.v, 1)])])])])])])])])])

Little == "Little"

Big == "Big"

\* the range constraint of each limb and the sum of the limbs weighted by the
\* powers of the radix, the first limb the least significant
RECURSIVE ComposeLimbs(_, _, _, _, _, _)
ComposeLimbs(c, limbs, radix, bit_size, radix_pow, composed_limbs) ==
    IF limbs = << >> \/ ~IsOk(c) THEN R(c, composed_limbs)
    ELSE ComposeLimbs(range_constraint(c, Head(limbs), bit_size), Tail(limbs), radix,
                      bit_size, radix_pow * radix,
                      ExprAddMul(composed_limbs, FromBytesReduce(radix_pow),
                                 ExprFromWitness(Head(limbs))))

\* GeneratedAcir::radix_le_decompose: the limbs are the outputs of a Brillig
\* call, each range constrained to the bits of radix - 1, and their weighted
\* sum is asserted equal to the input
radix_le_decompose(c, input_expr, radix, limb_count, bit_size) ==
    IF ~IsOk(c) THEN R(c, << >>)
    ELSE IF radix < 2 \/ radix > 256 THEN R(Fail(c, "panic"), << >>)
    ELSE
    Let([limb_witnesses \in {[i \in 1 .. limb_count |-> Len(c.wkind) + i - 1]} |->
    Let([called \in
            {push_opcode([c EXCEPT !.wkind = @ \o [i \in 1 .. limb_count |->
                                                      [kind |-> "oracle", e |-> ExprDefault]]],
                         BrilligOp("ToLeRadix", ExprFromConst(1),
                                   <<input_expr, ExprFromConst(radix)>>, limb_witnesses))} |->
    Let([composed \in {ComposeLimbs(called, limb_witnesses, radix, bit_size, 1,
                                    ExprDefault)} |->
    R(assert_is_zero(composed.c, ExprSub(input_expr, composed.v)), limb_witnesses)])])])

\* vecmap(limbs, |witness| add_data(AcirVarData::Witness(witness)))
RECURSIVE AddWitnessVars(_, _)
AddWitnessVars(c, limbs) ==
    IF limbs = << >> THEN R(c, << >>)
    ELSE Let([witness \in {add_data(c, Witness(Head(limbs)))} |->
         Let([rest \in {AddWitnessVars(witness.c, Tail(limbs))} |->
         R(rest.c, <<witness.v>> \o rest.v)])])

\* limb_vars.reverse()
Reverse(s) == [i \in DOMAIN s |-> s[Len(s) + 1 - i]]

\* a radix_decompose that returns the limbs in the order of the container
\* whatever the endianness
radix_decompose_unreversed(c, endian, input_var, radix_var, limb_count) ==
    IF ~IsOk(c) THEN R(c, << >>)
    ELSE IF ~Declared(c, radix_var) THEN R(Fail(c, "panic"), << >>)
    ELSE IF ~is_constant(c, radix_var) \/ ~Declared(c, input_var) THEN R(Fail(c, "err"), << >>)
    ELSE
    Let([radix \in {ToU128(c.vars[radix_var].c)} |->
    Let([limbs \in {radix_le_decompose(c, var_to_expression(c, input_var), radix,
                                       limb_count, BitLen(radix - 1))} |->
    AddWitnessVars(limbs.c, limbs.v)])])

\* radix_decompose: the limbs of the input over a constant radix, the least
\* significant first for Little, the most significant first for Big
radix_decompose(c, endian, input_var, radix_var, limb_count) ==
    IF ~IsOk(c) THEN R(c, << >>)
    ELSE IF ~Declared(c, radix_var) THEN R(Fail(c, "panic"), << >>)
    ELSE IF ~is_constant(c, radix_var) \/ ~Declared(c, input_var) THEN R(Fail(c, "err"), << >>)
    ELSE
    Let([radix \in {ToU128(c.vars[radix_var].c)} |->
    Let([limbs \in {radix_le_decompose(c, var_to_expression(c, input_var), radix,
                                       limb_count, BitLen(radix - 1))} |->
    Let([limb_vars \in {AddWitnessVars(limbs.c, limbs.v)} |->
    IF endian = Big THEN R(limb_vars.c, Reverse(limb_vars.v)) ELSE limb_vars])])])

\* bit_decompose: the decomposition over the constant 2
bit_decompose(c, endian, input_var, limb_count) ==
    IF ~IsOk(c) THEN R(c, << >>)
    ELSE Let([two_var \in {add_constant(c, 2)} |->
         radix_decompose(two_var.c, endian, input_var, two_var.v, limb_count)])

(***************************************************************************)
(* Memory and calls                                                        *)
(***************************************************************************)
MemoryOp(block_id, write, index, value) ==
    [op |-> "MemoryOp", block |-> block_id, write |-> write,
     index |-> index, value |-> value, predicate |-> "none"]

MemoryInit(block_id, init, block_type) ==
    [op |-> "MemoryInit", block |-> block_id, init |-> init, type |-> block_type]

CallOp(id, inputs, outputs, predicate) ==
    [op |-> "Call", id |-> id, inputs |-> inputs, outputs |-> outputs,
     predicate |-> predicate]

\* read_from_memory: the witness of the index, a new witness for the value
\* read, and the read
read_from_memory(c, block_id, index) ==
    Let([index_var \in {get_or_create_witness_var(c, index)} |->
    Let([index_witness \in {var_to_witness(index_var.c, index_var.v)} |->
    Let([value_read_var \in {add_variable(index_witness.c, "memory")} |->
    Let([value_read_witness \in {var_to_witness(value_read_var.c, value_read_var.v)} |->
    IF ~IsOk(value_read_witness.c) THEN R(value_read_witness.c, 0)
    ELSE R(push_opcode(value_read_witness.c,
                       MemoryOp(block_id, FALSE, ExprFromWitness(index_witness.v),
                                ExprFromWitness(value_read_witness.v))),
           value_read_var.v)])])])])

\* write_to_memory: the witnesses of the index and of the value, and the write
write_to_memory(c, block_id, index, value) ==
    Let([index_var \in {get_or_create_witness_var(c, index)} |->
    Let([index_witness \in {var_to_witness(index_var.c, index_var.v)} |->
    Let([value_write_var \in {get_or_create_witness_var(index_witness.c, value)} |->
    Let([value_write_witness \in {var_to_witness(value_write_var.c, value_write_var.v)} |->
    IF ~IsOk(value_write_witness.c) THEN value_write_witness.c
    ELSE push_opcode(value_write_witness.c,
                     MemoryOp(block_id, TRUE, ExprFromWitness(index_witness.v),
                              ExprFromWitness(value_write_witness.v)))])])])])

initialize_return_data(c, block_id, init) ==
    push_opcode(c, MemoryInit(block_id, init, "ReturnData"))

\* the variables read from the elements i .. len - 1 of a block, each at the
\* constant of its index
RECURSIVE ReadElements(_, _, _, _)
ReadElements(c, block_id, i, len) ==
    IF i >= len \/ ~IsOk(c) THEN R(c, << >>)
    ELSE Let([index_var \in {add_constant(c, i)} |->
         Let([read \in {read_from_memory(index_var.c, block_id, index_var.v)} |->
         Let([rest \in {ReadElements(read.c, block_id, i + 1, len)} |->
         R(rest.c, <<read.v>> \o rest.v)])])])

\* initialize_array_inner: the witnesses of the values of input, appended
RECURSIVE initialize_array_inner(_, _, _)
initialize_array_inner(c, witnesses, input) ==
    IF ~IsOk(c) THEN R(c, witnesses)
    ELSE IF input.tag = "Var"
        THEN Let([var \in {get_or_create_witness_var(c, input.var)} |->
             Let([witness \in {var_to_witness(var.c, var.v)} |->
             IF ~IsOk(witness.c) THEN R(witness.c, witnesses)
             ELSE R(witness.c, Append(witnesses, witness.v))])])
    ELSE IF input.tag = "Array"
        THEN IF input.values = << >> THEN R(c, witnesses)
             ELSE Let([first \in {initialize_array_inner(c, witnesses, Head(input.values))} |->
                  initialize_array_inner(first.c, first.v, Array(Tail(input.values)))])
    ELSE Let([dynamic_array_values \in {ReadElements(c, input.block_id, 0, input.len)} |->
         initialize_array_inner(dynamic_array_values.c, witnesses,
             Array([i \in DOMAIN dynamic_array_values.v |->
                       Var(dynamic_array_values.v[i], NativeField)]))])

\* no value to initialize an array with
NoValue == [tag |-> "None"]

\* initialize_array: the block of len zeros, or of the witnesses of the values
initialize_array(c, block_id, len, optional_value, databus) ==
    IF ~IsOk(c) THEN c
    ELSE
    Let([initialized_values \in
            {IF optional_value = NoValue
                 THEN Let([zero \in {add_constant(c, 0)} |->
                      Let([zero_witness \in {var_to_witness(zero.c, zero.v)} |->
                      R(zero_witness.c, [i \in 1 .. len |-> zero_witness.v])])])
             ELSE IF optional_value.tag = "DynamicArray"
                 THEN R(Fail(c, "panic"), << >>)
             ELSE initialize_array_inner(c, << >>, optional_value)} |->
    IF ~IsOk(initialized_values.c) THEN initialized_values.c
    ELSE push_opcode(initialized_values.c,
                     MemoryInit(block_id, initialized_values.v, databus))])

\* flatten: the variables of a value with their types; those of a dynamic
\* array are read from its block
RECURSIVE flatten(_, _)
flatten(c, value) ==
    IF ~IsOk(c) THEN R(c, << >>)
    ELSE IF value.tag = "Var" THEN R(c, << <<value.var, value.typ>> >>)
    ELSE IF value.tag = "Array"
        THEN IF value.values = << >> THEN R(c, << >>)
             ELSE Let([first \in {flatten(c, Head(value.values))} |->
                  Let([rest \in {flatten(first.c, Array(Tail(value.values)))} |->
                  R(rest.c, first.v \o rest.v)])])
    ELSE Let([reads \in {ReadElements(c, value.block_id, 0, value.len)} |->
         R(reads.c, [i \in DOMAIN reads.v |-> <<reads.v[i], value.value_types[i]>>])])

\* the witnesses of the flattened values: each variable is made a witness
\* variable and its witness taken
RECURSIVE PrepareFlattened(_, _)
PrepareFlattened(c, flattened) ==
    IF flattened = << >> \/ ~IsOk(c) THEN R(c, << >>)
    ELSE Let([witness_var \in {get_or_create_witness_var(c, Head(flattened)[1])} |->
         Let([witness \in {var_to_witness(witness_var.c, witness_var.v)} |->
         Let([rest \in {PrepareFlattened(witness.c, Tail(flattened))} |->
         R(rest.c, <<witness.v>> \o rest.v)])])])

\* prepare_inputs_for_black_box_func_call without constant inputs, and the
\* witnesses of its inputs in one sequence
RECURSIVE prepare_inputs_for_black_box_func_call(_, _)
prepare_inputs_for_black_box_func_call(c, inputs) ==
    IF inputs = << >> \/ ~IsOk(c) THEN R(c, << >>)
    ELSE Let([flattened \in {flatten(c, Head(inputs))} |->
         Let([single_val_witnesses \in {PrepareFlattened(flattened.c, flattened.v)} |->
         Let([rest \in {prepare_inputs_for_black_box_func_call(single_val_witnesses.c,
                                                                Tail(inputs))} |->
         R(rest.c, single_val_witnesses.v \o rest.v)])])])

\* n new witnesses, the outputs of a call
RECURSIVE NextWitnessIndices(_, _)
NextWitnessIndices(c, n) ==
    IF n = 0 THEN R(c, << >>)
    ELSE Let([witness \in {next_witness_index(c, "call", ExprDefault)} |->
         Let([rest \in {NextWitnessIndices(witness.c, n - 1)} |->
         R(rest.c, <<witness.v>> \o rest.v)])])

\* a variable for each of the witnesses
RECURSIVE AddWitnessData(_, _)
AddWitnessData(c, witnesses) ==
    IF witnesses = << >> THEN R(c, << >>)
    ELSE Let([var \in {add_data(c, Witness(Head(witnesses)))} |->
         Let([rest \in {AddWitnessData(var.c, Tail(witnesses))} |->
         R(rest.c, <<var.v>> \o rest.v)])])

\* call_acir_function: the witnesses of the inputs, a new witness and a
\* variable for each output, and the call under the predicate
call_acir_function(c, id, inputs, output_count, predicate) ==
    Let([prepared \in {prepare_inputs_for_black_box_func_call(c, inputs)} |->
    IF ~IsOk(prepared.c) THEN R(prepared.c, << >>)
    ELSE Let([outputs \in {NextWitnessIndices(prepared.c, output_count)} |->
         Let([results \in {AddWitnessData(outputs.c, outputs.v)} |->
         IF ~Declared(results.c, predicate) THEN R(Fail(results.c, "err"), << >>)
         ELSE R(push_opcode(results.c,
                            CallOp(id, prepared.v, outputs.v,
                                   var_to_expression(results.c, predicate))),
                results.v)])])])

\* finish: the GeneratedAcir handed back, stamped with the arguments
finish(c, inputs, return_values, warnings) ==
    [opcodes |-> c.opcodes,
     assertion_payloads |-> c.assertion_payloads,
     input_witnesses |-> inputs,
     return_witnesses |-> return_values,
     warnings |-> warnings]

(***************************************************************************)
(* Meaning of a transcript.  A witness assignment maps witness indices to  *)
(* field elements.  The opcodes are read in order: a Brillig call leaves   *)
(* its outputs free, the AssertZero that get_or_create_witness pushes      *)
(* defines its fresh witness, every other opcode is a constraint.          *)
(***************************************************************************)

RECURSIVE EvalLin(_, _)
EvalLin(lin, asg) ==
    IF lin = << >> THEN 0
    ELSE FAdd(FMul(Head(lin)[1], asg[Head(lin)[2]]), EvalLin(Tail(lin), asg))

RECURSIVE EvalMul(_, _)
EvalMul(mul, asg) ==
    IF mul = << >> THEN 0
    ELSE FAdd(FMul(Head(mul)[1], FMul(asg[Head(mul)[2]], asg[Head(mul)[3]])),
              EvalMul(Tail(mul), asg))

Eval(e, asg) == FAdd(FAdd(EvalMul(e.mul, asg), EvalLin(e.lin, asg)), e.qc)

ExprWitnesses(e) ==
    {e.lin[i][2] : i \in DOMAIN e.lin}
        \cup {e.mul[i][2] : i \in DOMAIN e.mul} \cup {e.mul[i][3] : i \in DOMAIN e.mul}

Extend(asg, w, v) == [x \in DOMAIN asg \cup {w} |-> IF x = w THEN v ELSE asg[x]]

RECURSIVE FreeOutputs(_, _)
FreeOutputs(S, outputs) ==
    IF outputs = << >> THEN S
    ELSE FreeOutputs({Extend(a, Head(outputs), v) : a \in S, v \in F}, Tail(outputs))

\* the bitwise XOR or AND of the low bits bits of a and b
RECURSIVE Bitwise(_, _, _, _)
Bitwise(func, a, b, bits) ==
    IF bits = 0 THEN 0
    ELSE (IF func = "AND" THEN (a % 2) * (b % 2) ELSE ((a % 2) + (b % 2)) % 2)
             + 2 * Bitwise(func, a \div 2, b \div 2, bits - 1)

\* the assignment a extended by the digits of x over the radix, the least
\* significant first, as the Brillig code of the decomposition computes them
RECURSIVE ToLeRadix(_, _, _, _)
ToLeRadix(a, x, radix, outputs) ==
    IF outputs = << >> THEN a
    ELSE ToLeRadix(Extend(a, Head(outputs), x % radix), x \div radix, radix, Tail(outputs))

\* the assignments of S, extended over the witnesses op introduces, that satisfy op
SolveOpcode(S, op, wkind) ==
    IF op.op = "BrilligCall" /\ op.func = "ToLeRadix"
        THEN {ToLeRadix(a, Eval(op.inputs[1], a), op.inputs[2].qc, op.outputs) : a \in S}
    ELSE IF op.op = "BrilligCall" THEN FreeOutputs(S, op.outputs)
    ELSE IF op.op = "BlackBox"
        THEN {Extend(a, op.outputs[1],
                     Bitwise(op.func, a[op.inputs[1]], a[op.inputs[2]], op.bits)) : a \in S}
    ELSE IF op.op = "Range" THEN {a \in S : a[op.w] < Pow2(op.bits)}
    ELSE LET defined(a) ==
                 LET fresh == ExprWitnesses(op.e) \ DOMAIN a
                 IN  IF fresh = {} THEN a
                     ELSE LET w == CHOOSE x \in fresh : TRUE
                          IN  Extend(a, w, Eval(wkind[w + 1].e, a))
         IN  {b \in {defined(a) : a \in S} : Eval(op.e, b) = 0}

RECURSIVE Solve(_, _, _)
Solve(S, opcodes, wkind) ==
    IF opcodes = << >> \/ S = {} THEN S
    ELSE Solve(SolveOpcode(S, Head(opcodes), wkind), Tail(opcodes), wkind)

\* the witnesses add_variable handed out as inputs
InputWitnesses(c) == {i - 1 : i \in {j \in DOMAIN c.wkind : c.wkind[j].kind = "input"}}

\* every assignment satisfying the transcript of c that extends the input values
Solutions(c, input_values) == Solve({input_values}, c.opcodes, c.wkind)

\* the value a variable takes under an assignment
ValueOf(c, var, asg) == Eval(var_to_expression(c, var), asg)

(***************************************************************************)
(* State: the context under construction, the last call made on it        *)
(* (operation, arguments, returned value ids, the context before the call, *)
(* and the GeneratedAcir a finish returned), and the value ids the caller  *)
(* holds for the operands it prepared.                                     *)
(***************************************************************************)

VARIABLES ctx, call, operands

vars == <<ctx, call, operands>>

NoAcir == finish(NewContext, <<>>, <<>>, <<>>)

Call(op, args, payload, ret, pre) ==
    [op |-> op, args |-> args, payload |-> payload, ret |-> ret, pre |-> pre, acir |-> NoAcir]

NoCall == Call("none", <<>>, NoPayload, <<>>, NewContext)

\* the opcodes a call added to the transcript
Emitted == SubSeq(ctx.opcodes, Len(call.pre.opcodes) + 1, Len(ctx.opcodes))

Ready == IsOk(ctx) /\ call.op = "none"

(***************************************************************************)
(* Operations as actions                                                   *)
(***************************************************************************)

\* the one value an operation returns, as the sequence of its returned values
One(r) == R(r.c, <<r.v>>)

Returns(op, args, payload, r) ==
    /\ ctx' = r.c
    /\ call' = Call(op, args, payload, r.v, ctx)
    /\ UNCHANGED operands

EuclideanDivisionVar(lhs, rhs, bit_size, predicate) ==
    /\ Ready
    /\ Returns("euclidean_division_var", <<lhs, rhs, bit_size, predicate>>, NoPayload,
               euclidean_division_var(ctx, lhs, rhs, bit_size, predicate))

SignedDivisionVar(lhs, rhs, bit_size, predicate) ==
    /\ Ready
    /\ Returns("signed_division_var", <<lhs, rhs, bit_size, predicate>>, NoPayload,
               signed_division_var(ctx, lhs, rhs, bit_size, predicate))

TruncateVar(lhs, rhs, max_bit_size) ==
    /\ Ready
    /\ Returns("truncate_var", <<lhs, rhs, max_bit_size>>, NoPayload,
               One(truncate_var(ctx, lhs, rhs, max_bit_size)))

InvVar(var, predicate) ==
    /\ Ready
    /\ Returns("inv_var", <<var, predicate>>, NoPayload, One(inv_var(ctx, var, predicate)))

AssertNeqVar(lhs, rhs, predicate, payload) ==
    /\ Ready
    /\ Returns("assert_neq_var", <<lhs, rhs, predicate>>, payload,
               R(assert_neq_var(ctx, lhs, rhs, predicate, payload), << >>))

RangeConstrainVar(variable, bit_size, predicate) ==
    /\ Ready
    /\ Returns("range_constrain_var", <<variable, bit_size, predicate>>, NoPayload,
               One(range_constrain_var(ctx, variable, Unsigned(bit_size), NoPayload,
                                       predicate)))

BoundConstraintWithOffset(lhs, rhs, offset, bits, predicate) ==
    /\ Ready
    /\ Returns("bound_constraint_with_offset", <<lhs, rhs, offset, bits, predicate>>, NoPayload,
               R(bound_constraint_with_offset(ctx, lhs, rhs, offset, bits, predicate), << >>))

DivVarSigned(lhs, rhs, bit_size, predicate) ==
    /\ Ready
    /\ Returns("div_var", <<lhs, rhs, bit_size, predicate>>, NoPayload,
               One(div_var(ctx, lhs, rhs, Signed(bit_size), predicate)))

ModuloVarSigned(lhs, rhs, bit_size, predicate) ==
    /\ Ready
    /\ Returns("modulo_var", <<lhs, rhs, bit_size, predicate>>, NoPayload,
               One(modulo_var(ctx, lhs, rhs, Signed(bit_size), bit_size, predicate)))

(***************************************************************************)
(* The division specification: a context in which the caller prepared a    *)
(* dividend, a divisor and a predicate, each a constant, a fresh witness   *)
(* or an expression over a fresh witness, and on which one operation of    *)
(* the bounded-integer layer is made.                                      *)
(***************************************************************************)

\* the largest bit size of an operand type
MaxBits == 5

BitSizes == 1 .. MaxBits

\* the largest constant operand
MaxConst == 31

Operands ==
    {<<"const", k>> : k \in 0 .. MaxConst} \cup {<<"witness", 0>>, <<"expr", 0>>}

Predicates == {<<"const", 0>>, <<"const", 1>>, <<"witness", 0>>}

\* a constant, an input witness w, the expression 2*w of an input witness w,
\* or, of input witnesses w, w' and w'', the negation -w, its negation
\* -(-w), the sum w + 1, the sum w + w', the product w * w' or the product
\* (w + w') * w''
AddOperand(c, operand) ==
    IF operand[1] = "const" THEN add_constant(c, operand[2])
    ELSE IF operand[1] = "witness" THEN add_variable(c, "input")
    ELSE IF operand[1] = "expr"
        THEN Let([w \in {add_variable(c, "input")} |->
             Let([two \in {add_constant(w.c, 2)} |->
             mul_var(two.c, w.v, two.v)])])
    ELSE IF operand[1] = "negated"
        THEN Let([w \in {add_variable(c, "input")} |-> neg_var(w.c, w.v)])
    ELSE IF operand[1] = "renegated"
        THEN Let([w \in {add_variable(c, "input")} |->
             Let([n \in {neg_var(w.c, w.v)} |-> neg_var(n.c, n.v)])])
    ELSE IF operand[1] = "affine"
        THEN Let([w \in {add_variable(c, "input")} |->
             Let([one \in {add_constant(w.c, 1)} |->
             add_var(one.c, w.v, one.v)])])
    ELSE Let([w \in {add_variable(c, "input")} |->
         Let([x \in {add_variable(w.c, "input")} |->
         IF operand[1] = "sum" THEN add_var(x.c, w.v, x.v)
         ELSE IF operand[1] = "product" THEN mul_var(x.c, w.v, x.v)
         \* "wide": the product of a sum and a witness
         ELSE Let([y \in {add_variable(x.c, "input")} |->
              Let([sum \in {add_var(y.c, w.v, x.v)} |->
              mul_var(sum.c, sum.v, y.v)])])])])

\* the context after the caller prepared the three operands, and their ids
Prepared(a, b, p) ==
    Let([lhs \in {AddOperand(NewContext, a)} |->
    Let([rhs \in {AddOperand(lhs.c, b)} |->
    Let([predicate \in {AddOperand(rhs.c, p)} |->
    R(predicate.c, [lhs |-> lhs.v, rhs |-> rhs.v, predicate |-> predicate.v])])])])

InitDiv ==
    /\ \E a \in Operands, b \in Operands, p \in Predicates :
          /\ ctx = Prepared(a, b, p).c
          /\ operands = Prepared(a, b, p).v
    /\ call = NoCall

\* a constant operand is a value of the type; a witness is any
OfType(c, v, bit_size) ==
    is_constant(c, v) => NumBits(c.vars[v].c) <= bit_size

\* the largest constant operand of the operations other than the divisions
SmallConst == 3

SmallOperands(c) ==
    \A v \in {operands.lhs, operands.rhs} : is_constant(c, v) => c.vars[v].c <= SmallConst

\* the constants 0 and 1 the callers pass as the offset of a bound constraint
Offsets(c) == {v \in DOMAIN c.vars : is_constant(c, v) /\ c.vars[v].c \in {0, 1}}

Payloads == {NoPayload, "attempt to divide by zero"}

NextDiv ==
    \/ \E bs \in BitSizes :
          /\ OfType(ctx, operands.lhs, bs)
          /\ OfType(ctx, operands.rhs, bs) \/ ~is_constant(ctx, operands.lhs)
          /\ EuclideanDivisionVar(operands.lhs, operands.rhs, bs, operands.predicate)
    \/ \E bs \in BitSizes :
          /\ OfType(ctx, operands.lhs, bs) /\ OfType(ctx, operands.rhs, bs)
          /\ SignedDivisionVar(operands.lhs, operands.rhs, bs, operands.predicate)
    \/ \E bs \in BitSizes :
          /\ SmallOperands(ctx)
          /\ OfType(ctx, operands.lhs, bs) /\ OfType(ctx, operands.rhs, bs)
          /\ DivVarSigned(operands.lhs, operands.rhs, bs, operands.predicate)
    \/ \E bs \in BitSizes :
          /\ SmallOperands(ctx)
          /\ OfType(ctx, operands.lhs, bs) /\ OfType(ctx, operands.rhs, bs)
          /\ ModuloVarSigned(operands.lhs, operands.rhs, bs, operands.predicate)
    \/ \E k \in 0 .. MaxBits, n \in BitSizes :
          /\ SmallOperands(ctx)
          /\ OfType(ctx, operands.lhs, n)
          /\ TruncateVar(operands.lhs, k, n)
    \/ /\ SmallOperands(ctx)
       /\ InvVar(operands.lhs, operands.predicate)
    \/ \E payload \in Payloads :
          /\ SmallOperands(ctx)
          /\ AssertNeqVar(operands.lhs, operands.rhs, operands.predicate, payload)
    \/ \E bs \in BitSizes :
          /\ SmallOperands(ctx)
          /\ RangeConstrainVar(operands.lhs, bs, operands.predicate)
    \/ \E offset \in Offsets(ctx), bits \in BitSizes :
          /\ SmallOperands(ctx)
          /\ BoundConstraintWithOffset(operands.lhs, operands.rhs, offset, bits,
                                       operands.predicate)
    \* the widths next to the bit count of the field, under the predicate 1
    \/ \E offset \in Offsets(ctx), bits \in {MaxNumBits - 1, MaxNumBits} :
          /\ SmallOperands(ctx)
          /\ is_constant_one(ctx, operands.predicate)
          /\ BoundConstraintWithOffset(operands.lhs, operands.rhs, offset, bits,
                                       operands.predicate)

SpecDiv == InitDiv /\ [][NextDiv]_vars

(***************************************************************************)
(* The predicate specification: the caller prepared two operands and the   *)
(* constant 0 as the predicate, for which an earlier operation may have    *)
(* made a witness already, and makes one call of an operation that takes   *)
(* a predicate.                                                            *)
(***************************************************************************)
PreparedUnderZero(a, b, cached) ==
    Let([prepared \in {Prepared(a, b, <<"const", 0>>)} |->
    IF cached THEN R(var_to_witness(prepared.c, prepared.v.predicate).c, prepared.v)
    ELSE prepared])

\* the operands of the divisions and the product of two input witnesses
PredOperands == Operands \cup {<<"product", 0>>}

InitPred ==
    /\ \E a \in PredOperands, b \in PredOperands, cached \in BOOLEAN :
          /\ ctx = PreparedUnderZero(a, b, cached).c
          /\ operands = PreparedUnderZero(a, b, cached).v
    /\ call = NoCall

NextPred ==
    \/ \E bs \in BitSizes :
          /\ OfType(ctx, operands.lhs, bs)
          /\ OfType(ctx, operands.rhs, bs) \/ ~is_constant(ctx, operands.lhs)
          /\ EuclideanDivisionVar(operands.lhs, operands.rhs, bs, operands.predicate)
    \/ \E bs \in BitSizes :
          /\ OfType(ctx, operands.lhs, bs) /\ OfType(ctx, operands.rhs, bs)
          /\ SignedDivisionVar(operands.lhs, operands.rhs, bs, operands.predicate)
    \/ \E bs \in BitSizes :
          /\ SmallOperands(ctx)
          /\ OfType(ctx, operands.lhs, bs) /\ OfType(ctx, operands.rhs, bs)
          /\ DivVarSigned(operands.lhs, operands.rhs, bs, operands.predicate)
    \/ \E bs \in BitSizes :
          /\ SmallOperands(ctx)
          /\ OfType(ctx, operands.lhs, bs) /\ OfType(ctx, operands.rhs, bs)
          /\ ModuloVarSigned(operands.lhs, operands.rhs, bs, operands.predicate)
    \/ /\ SmallOperands(ctx)
       /\ InvVar(operands.lhs, operands.predicate)
    \/ \E payload \in Payloads :
          /\ SmallOperands(ctx)
          /\ AssertNeqVar(operands.lhs, operands.rhs, operands.predicate, payload)
    \/ \E bs \in BitSizes :
          /\ SmallOperands(ctx)
          /\ RangeConstrainVar(operands.lhs, bs, operands.predicate)
    \/ \E offset \in Offsets(ctx), bits \in BitSizes :
          /\ SmallOperands(ctx)
          /\ BoundConstraintWithOffset(operands.lhs, operands.rhs, offset, bits,
                                       operands.predicate)

SpecPred == InitPred /\ [][NextPred]_vars

(***************************************************************************)
(* Properties of the divisions.  They read the last call: its operation,   *)
(* its arguments, the context before it (call.pre) and after it (ctx), and *)
(* the value ids it returned.                                              *)
(***************************************************************************)

\* the variable v of context c is the constant k
IsConstantValue(c, v, k) == is_constant(c, v) /\ c.vars[v].c = k

\* the constant a variable holds in the context before the call
ArgConst(i) == call.pre.vars[call.args[i]].c

\* the call divided an unsigned dividend by a divisor under a predicate
CalledEuclid == call.op = "euclidean_division_var"

\* a call of euclidean_division_var on two constants of the type, the divisor
\* not zero, under the constant predicate 1
ConstantDivision ==
    /\ CalledEuclid
    /\ is_constant(call.pre, call.args[1]) /\ NumBits(ArgConst(1)) <= call.args[3]
    /\ is_constant(call.pre, call.args[2]) /\ NumBits(ArgConst(2)) <= call.args[3]
    /\ ArgConst(2) # 0
    /\ is_constant_one(call.pre, call.args[4])

\* C1: on constants a and b of the type, b not zero, under the constant
\* predicate 1, euclidean_division_var returns the constants a div b and
\* a mod b (floor division), whether the operands fit the native width or
\* not, and emits no opcode (so no Brillig call).
C1_ConstantDivisionFolds ==
    ConstantDivision =>
        /\ IsOk(ctx)
        /\ IsConstantValue(ctx, call.ret[1], ArgConst(1) \div ArgConst(2))
        /\ IsConstantValue(ctx, call.ret[2], ArgConst(1) % ArgConst(2))
        /\ Emitted = <<>>

\* 17 / 5 = (3, 2) at a width where 17 exceeds the native integers
C1_Witness ==
    /\ ConstantDivision
    /\ ArgConst(1) = 17 /\ ArgConst(2) = 5 /\ NumBits(ArgConst(1)) > NativeBits
    /\ IsConstantValue(ctx, call.ret[1], 3) /\ IsConstantValue(ctx, call.ret[2], 2)

\* the values of the input witnesses under which the dividend and the divisor
\* of the call are values of the type
TypedInputs ==
    {iv \in [InputWitnesses(call.pre) -> F] :
        /\ ValueOf(call.pre, call.args[1], iv) < Pow2(call.args[3])
        /\ ValueOf(call.pre, call.args[2], iv) < Pow2(call.args[3])}

\* the pairs (q, r) the returned variables take over the assignments that
\* extend iv and satisfy the transcript
QuotientsAndRemainders(iv) ==
    {<<ValueOf(ctx, call.ret[1], s), ValueOf(ctx, call.ret[2], s)>> : s \in Solutions(ctx, iv)}

\* a call of euclidean_division_var on a dividend and a divisor that are not
\* constants, under the constant predicate 1, at a width where b*q + r cannot
\* overflow the field
RunTimeDivision ==
    /\ CalledEuclid
    /\ ~is_constant(call.pre, call.args[1])
    /\ ~is_constant(call.pre, call.args[2])
    /\ is_constant_one(call.pre, call.args[4])
    /\ 2 * call.args[3] < MaxNumBits - 1

\* C2: for a dividend a and a divisor b that are not constants, with values
\* below 2^bit_size, 2*bit_size < max_num_bits - 1 and the predicate 1, the
\* emitted constraints are satisfied by exactly one pair of Brillig outputs,
\* (a div b, a mod b); when b = 0 no pair satisfies them.
C2_ConstraintsDetermineDivision ==
    RunTimeDivision =>
        /\ IsOk(ctx)
        /\ \A iv \in TypedInputs :
              IF ValueOf(call.pre, call.args[2], iv) = 0
                  THEN QuotientsAndRemainders(iv) = {}
              ELSE QuotientsAndRemainders(iv) =
                       {<<ValueOf(call.pre, call.args[1], iv)
                              \div ValueOf(call.pre, call.args[2], iv),
                          ValueOf(call.pre, call.args[1], iv)
                              % ValueOf(call.pre, call.args[2], iv)>>}

\* two witnesses divided at bit size 2: 3 / 2 = (1, 1) is among the inputs
C2_Witness ==
    /\ RunTimeDivision
    /\ call.args[3] = 2
    /\ call.pre.vars[call.args[1]].tag = "Witness"
    /\ call.pre.vars[call.args[2]].tag = "Witness"
    /\ \E iv \in TypedInputs :
          /\ ValueOf(call.pre, call.args[1], iv) = 3
          /\ ValueOf(call.pre, call.args[2], iv) = 2
          /\ QuotientsAndRemainders(iv) = {<<1, 1>>}

\* the integer a value of a signed type of bit_size bits stands for
SignedValue(x, bit_size) == IF x < Pow2(bit_size - 1) THEN x ELSE x - Pow2(bit_size)

\* the sign bit of a value of a signed type
SignBit(x, bit_size) == IF x < Pow2(bit_size - 1) THEN 0 ELSE 1

Abs(x) == IF x < 0 THEN 0 - x ELSE x

\* the quotient of the integers a and b rounded towards zero
TruncatedQuotient(a, b) ==
    IF (a < 0) = (b < 0) THEN Abs(a) \div Abs(b) ELSE 0 - (Abs(a) \div Abs(b))

\* the two's-complement encoding of an integer in bit_size bits
Encode(x, bit_size) == x % Pow2(bit_size)

CalledSigned == call.op = "signed_division_var"

\* a call of signed_division_var on constants of the type, the divisor not 0,
\* under the constant predicate 1
ConstantSignedDivision ==
    /\ CalledSigned
    /\ is_constant(call.pre, call.args[1])
    /\ is_constant(call.pre, call.args[2])
    /\ ArgConst(2) # 0
    /\ is_constant_one(call.pre, call.args[4])

\* the predicate of a signed division is the constant 0
SignedPredicateZero == CalledSigned /\ IsConstantValue(call.pre, call.args[4], 0)

\* C3 as stated: on constants, the sign of q is sign(a) XOR sign(b),
\* a = b*q + r as signed integers, |r| < |b| and sign(r) = sign(a); and the
\* result is (0, 0) whenever the predicate is 0.
C3_Original ==
    /\ ConstantSignedDivision =>
          /\ IsOk(ctx)
          /\ is_constant(ctx, call.ret[1]) /\ is_constant(ctx, call.ret[2])
          /\ SignBit(ctx.vars[call.ret[1]].c, call.args[3])
                 = (SignBit(ArgConst(1), call.args[3]) + SignBit(ArgConst(2), call.args[3])) % 2
          /\ SignedValue(ArgConst(1), call.args[3])
                 = SignedValue(ArgConst(2), call.args[3])
                       * SignedValue(ctx.vars[call.ret[1]].c, call.args[3])
                   + SignedValue(ctx.vars[call.ret[2]].c, call.args[3])
          /\ Abs(SignedValue(ctx.vars[call.ret[2]].c, call.args[3]))
                 < Abs(SignedValue(ArgConst(2), call.args[3]))
          /\ SignBit(ctx.vars[call.ret[2]].c, call.args[3]) = SignBit(ArgConst(1), call.args[3])
    /\ SignedPredicateZero =>
          /\ IsOk(ctx)
          /\ IsConstantValue(ctx, call.ret[1], 0)
          /\ IsConstantValue(ctx, call.ret[2], 0)

\* C3: on constants a, b of the type with b # 0 and the predicate 1,
\* signed_division_var returns the constants that encode, in bit_size bits,
\* the quotient of a by b rounded towards zero and the remainder a - b*q
\* (a zero quotient or remainder has sign bit 0, and MIN / -1 wraps to MIN);
\* under the constant predicate 0 it returns the constants (0, 0).
C3_SignedDivision ==
    /\ ConstantSignedDivision =>
          /\ IsOk(ctx)
          /\ IsConstantValue(ctx, call.ret[1],
                 Encode(TruncatedQuotient(SignedValue(ArgConst(1), call.args[3]),
                                          SignedValue(ArgConst(2), call.args[3])),
                        call.args[3]))
          /\ IsConstantValue(ctx, call.ret[2],
                 Encode(SignedValue(ArgConst(1), call.args[3])
                          - SignedValue(ArgConst(2), call.args[3])
                              * TruncatedQuotient(SignedValue(ArgConst(1), call.args[3]),
                                                  SignedValue(ArgConst(2), call.args[3])),
                        call.args[3]))
    /\ SignedPredicateZero =>
          /\ IsOk(ctx)
          /\ IsConstantValue(ctx, call.ret[1], 0)
          /\ IsConstantValue(ctx, call.ret[2], 0)

\* -7 / 2 at 4 bits is (-3, -1): 9 / 2 returns (13, 15)
C3_Witness ==
    /\ ConstantSignedDivision
    /\ call.args[3] = 4
    /\ ArgConst(1) = 9 /\ ArgConst(2) = 2
    /\ IsConstantValue(ctx, call.ret[1], 13)
    /\ IsConstantValue(ctx, call.ret[2], 15)

\* the position of the predicate among the arguments of the last call
PredicateArg ==
    IF call.op = "inv_var" THEN 2
    ELSE IF call.op \in {"assert_neq_var", "range_constrain_var"} THEN 3
    ELSE IF call.op = "bound_constraint_with_offset" THEN 5
    ELSE 4

\* the last call took a predicate, and it was the constant 0
PredicateZero ==
    /\ call.op \notin {"none", "truncate_var"}
    /\ IsConstantValue(call.pre, call.args[PredicateArg], 0)

\* the constant 0 had a witness before the call
ZeroHadWitness == 0 \in DOMAIN call.pre.constant_witnesses

\* the range check of the witness of the constant 0: of the witness the
\* constant had before the call, or else of a fresh witness that an identity
\* binds to 0 first
ZeroWitnessRangeCheck(opcodes) ==
    IF ZeroHadWitness
        THEN /\ Len(opcodes) = 1
             /\ opcodes[1].op = "Range"
             /\ opcodes[1].w = call.pre.constant_witnesses[0]
    ELSE /\ Len(opcodes) = 2
         /\ opcodes[1] = AssertZeroOp(ExprSub(ExprFromConst(0),
                                              ExprFromWitness(Len(call.pre.wkind))))
         /\ opcodes[2].op = "Range" /\ opcodes[2].w = Len(call.pre.wkind)

\* the context after a signed division extracted the two sign bits: the
\* constants 2^(bit_size-1), 0 and 1, and the divisions of rhs and of lhs by
\* 2^(bit_size-1) under the predicate 1
SignBitDivisions(c, lhs, rhs, bit_size) ==
    Let([max_power_of_two \in {add_constant(c, power_of_two(bit_size - 1))} |->
    Let([zero \in {add_constant(max_power_of_two.c, 0)} |->
    Let([one \in {add_constant(zero.c, 1)} |->
    Let([rhs_leading \in {euclidean_division_var(one.c, rhs, max_power_of_two.v,
                                                 bit_size, one.v)} |->
    euclidean_division_var(rhs_leading.c, lhs, max_power_of_two.v, bit_size, one.v).c
    ])])])])

\* the opcodes the two sign-bit divisions of the last call add
SignBitOpcodes ==
    SubSeq(SignBitDivisions(call.pre, call.args[1], call.args[2], call.args[3]).opcodes,
           Len(call.pre.opcodes) + 1,
           Len(SignBitDivisions(call.pre, call.args[1], call.args[2],
                                call.args[3]).opcodes))

\* the opcode is the identity that binds a witness of the call to the
\* expression it was made for
BindsFreshWitness(opcode) ==
    \E w \in Len(call.pre.wkind) .. Len(ctx.wkind) - 1 :
        /\ ctx.wkind[w + 1].kind = "derived"
        /\ opcode = AssertZeroOp(ExprSub(ctx.wkind[w + 1].e, ExprFromWitness(w)))

\* the witnesses an opcode of a division mentions
OpcodeWitnesses(opcode) ==
    IF opcode.op = "Range" THEN {opcode.w}
    ELSE IF opcode.op = "AssertZero" THEN ExprWitnesses(opcode.e)
    ELSE IF opcode.op = "BrilligCall"
        THEN ExprWitnesses(opcode.e)
                 \cup UNION {ExprWitnesses(opcode.inputs[i]) : i \in DOMAIN opcode.inputs}
                 \cup {opcode.outputs[i] : i \in DOMAIN opcode.outputs}
    ELSE {opcode.inputs[i] : i \in DOMAIN opcode.inputs}
             \cup {opcode.outputs[i] : i \in DOMAIN opcode.outputs}

\* the transcript of a signed division under the constant predicate 0: the
\* opcodes of the two sign-bit divisions, then only identities that bind a
\* fresh witness to a product of the sign handling; every Brillig call runs
\* under the predicate 1 and every Quotient call divides by 2^(bit_size-1);
\* no opcode mentions the witness of the caller's predicate
SignBitsOnly(opcodes, bit_size) ==
    /\ Len(opcodes) >= Len(SignBitOpcodes)
    /\ SubSeq(opcodes, 1, Len(SignBitOpcodes)) = SignBitOpcodes
    /\ \A i \in DOMAIN opcodes :
          /\ i > Len(SignBitOpcodes) => BindsFreshWitness(opcodes[i])
          /\ opcodes[i].op = "BrilligCall" =>
                /\ opcodes[i].e = ExprFromConst(1)
                /\ opcodes[i].func \in {"Quotient", "Inverse"}
                /\ opcodes[i].func = "Quotient" =>
                      opcodes[i].inputs[2] = ExprFromConst(Pow2(bit_size - 1))
          /\ ZeroHadWitness =>
                call.pre.constant_witnesses[0] \notin OpcodeWitnesses(opcodes[i])
    /\ Cardinality({i \in DOMAIN opcodes : /\ opcodes[i].op = "BrilligCall"
                                            /\ opcodes[i].func = "Quotient"}) <= 2

C6_PredicateZeroReturnsZeros ==
    (CalledEuclid /\ IsConstantValue(call.pre, call.args[4], 0)) =>
        /\ IsOk(ctx)
        /\ IsConstantValue(ctx, call.ret[1], 0)
        /\ IsConstantValue(ctx, call.ret[2], 0)
        /\ ctx.opcodes = call.pre.opcodes
        /\ ctx.wkind = call.pre.wkind
        /\ ctx.warnings = call.pre.warnings

\* a witness divided by the constant 0 under the constant predicate 0
C6_Witness ==
    /\ CalledEuclid /\ IsConstantValue(call.pre, call.args[4], 0)
    /\ ~is_constant(call.pre, call.args[1])
    /\ IsConstantValue(call.pre, call.args[2], 0)
    /\ IsConstantValue(ctx, call.ret[1], 0) /\ IsConstantValue(ctx, call.ret[2], 0)

\* a call of euclidean_division_var whose divisor is the constant 1
DivisionByOne == CalledEuclid /\ IsConstantValue(call.pre, call.args[2], 1)

\* C7 as stated: for any dividend and any predicate, dividing by the
\* constant 1 returns (lhs, 0), the quotient being the id of lhs, and emits no
\* arithmetic identity.
C7_Original ==
    DivisionByOne =>
        /\ call.ret[1] = call.args[1]
        /\ IsConstantValue(ctx, call.ret[2], 0)
        /\ \A i \in DOMAIN Emitted : Emitted[i].op # "AssertZero"

\* C7: dividing by the constant 1 emits no opcode and returns (0, 0) under
\* the constant predicate 0; otherwise, for a constant dividend a, two new
\* constants a and 0; otherwise (lhs, 0), the quotient being the id of lhs.
C7_DivisionByOne ==
    DivisionByOne =>
        /\ IsOk(ctx)
        /\ Emitted = <<>>
        /\ IsConstantValue(ctx, call.ret[2], 0)
        /\ IF IsConstantValue(call.pre, call.args[4], 0)
               THEN IsConstantValue(ctx, call.ret[1], 0) /\ call.ret[1] # call.args[1]
           ELSE IF is_constant(call.pre, call.args[1])
               THEN /\ IsConstantValue(ctx, call.ret[1], ArgConst(1))
                    /\ call.ret[1] # call.args[1]
           ELSE call.ret[1] = call.args[1]

\* a witness divided by the constant 1 under a witness predicate
C7_Witness ==
    /\ DivisionByOne
    /\ call.pre.vars[call.args[1]].tag = "Witness"
    /\ call.pre.vars[call.args[4]].tag = "Witness"
    /\ call.ret[1] = call.args[1]

\* the values of the input witnesses under which the truncated variable is a
\* value of max_bit_size bits
TruncateInputs ==
    {iv \in [InputWitnesses(call.pre) -> F] :
        ValueOf(call.pre, call.args[1], iv) < Pow2(call.args[3])}

\* the values the returned variable takes over the assignments that extend iv
\* and satisfy the transcript
TruncatedValues(iv) == {ValueOf(ctx, call.ret[1], s) : s \in Solutions(ctx, iv)}

CalledTruncate == call.op = "truncate_var"

\* C8: truncate_var(x, k, n) is x mod 2^k for every k, every n and every
\* x < 2^n: a constant x returns that constant, and for another x the
\* emitted constraints are satisfiable and force the returned variable to
\* x mod 2^k, also when k >= n.
C8_TruncateIsModulo ==
    CalledTruncate =>
        /\ IsOk(ctx)
        /\ is_constant(call.pre, call.args[1])
              => IsConstantValue(ctx, call.ret[1], ArgConst(1) % Pow2(call.args[2]))
        /\ \A iv \in TruncateInputs :
              TruncatedValues(iv) = {ValueOf(call.pre, call.args[1], iv) % Pow2(call.args[2])}

\* the call reaches the overflow guard with a divisor that is not a constant,
\* at a bit size other than the native one
UnsupportedUnboundedDivision ==
    /\ CalledEuclid
    /\ ~IsConstantValue(call.pre, call.args[4], 0)
    /\ ~is_constant(call.pre, call.args[2])
    /\ 2 * call.args[3] >= MaxNumBits - 1
    /\ call.args[3] # NativeBits

\* C10: a division that reaches the overflow guard with a divisor that is
\* not a constant and a bit size other than 128 does not abort the build: it
\* emits a failing assertion and returns the safe default (0, 0).
C10_OverflowReportedAsValue ==
    UnsupportedUnboundedDivision =>
        /\ ctx.status # "panic"
        /\ IsConstantValue(ctx, call.ret[1], 0)
        /\ IsConstantValue(ctx, call.ret[2], 0)

\* a call of euclidean_division_var on a dividend that is not a constant, by
\* a constant divisor of more bits than the type, under a predicate that is
\* not the constant 0
OversizedDivisor ==
    /\ CalledEuclid
    /\ ~is_constant(call.pre, call.args[1])
    /\ is_constant(call.pre, call.args[2]) /\ NumBits(ArgConst(2)) > call.args[3]
    /\ ~IsConstantValue(call.pre, call.args[4], 0)

\* C11: dividing a dividend that is not a constant by a constant of more
\* bits than bit_size, under a predicate that is not the constant 0, emits
\* exactly one opcode, an assert_is_zero of a constant that is not zero, with
\* the payload at the location of that opcode; it emits no Brillig call and
\* no range constraint, allocates no witness, and returns (0, 0).
C11_OversizedDivisorFails ==
    OversizedDivisor =>
        /\ IsOk(ctx)
        /\ Len(Emitted) = 1
        /\ Emitted[1].op = "AssertZero"
        /\ ExprIsConst(Emitted[1].e) /\ ~ExprIsZero(Emitted[1].e)
        /\ DOMAIN ctx.assertion_payloads =
               (DOMAIN call.pre.assertion_payloads) \cup {last_acir_opcode_location(ctx)}
        /\ ctx.assertion_payloads[last_acir_opcode_location(ctx)] =
               DivisorTooLarge(NumBits(call.pre.vars[call.args[2]].c), call.args[3])
        /\ ctx.wkind = call.pre.wkind
        /\ IsConstantValue(ctx, call.ret[1], 0)
        /\ IsConstantValue(ctx, call.ret[2], 0)

\* a witness divided by the constant 4 at bit size 2 under a witness predicate
C11_Witness ==
    /\ OversizedDivisor
    /\ call.pre.vars[call.args[1]].tag = "Witness"
    /\ ArgConst(2) = 4 /\ call.args[3] = 2
    /\ call.pre.vars[call.args[4]].tag = "Witness"
    /\ Emitted = <<AssertZeroOp(ExprFromConst(FNeg(1)))>>
    /\ call.ret = <<call.ret[1], call.ret[1]>>

\* the last call inverted a variable that held a constant
ConstantInverse == call.op = "inv_var" /\ is_constant(call.pre, call.args[1])

\* C19: for a constant v, inv_var(v, predicate) returns the constant
\* F::inverse(v), which is 0 for v = 0, and allocates no witness; it emits no
\* opcode and records no warning when v # 0, whatever the predicate, and
\* when the predicate is the constant 0 (inv_var(0, 0) included): a check is
\* emitted only for v = 0 under a predicate that is not the constant 0.
C19_ConstantInverse ==
    ConstantInverse =>
        /\ IsOk(ctx)
        /\ IsConstantValue(ctx, call.ret[1], FInverse(ArgConst(1)))
        /\ ArgConst(1) = 0 => IsConstantValue(ctx, call.ret[1], 0)
        /\ ctx.wkind = call.pre.wkind
        /\ (ArgConst(1) # 0 \/ IsConstantValue(call.pre, call.args[2], 0))
              => Emitted = <<>> /\ ctx.warnings = call.pre.warnings

\* the inverse of the constant 3 under a witness predicate: the constant
\* 85 (3 * 85 = 255 = 1 modulo 127) and no opcode
C19_Witness ==
    /\ ConstantInverse
    /\ ArgConst(1) = 3
    /\ call.pre.vars[call.args[2]].tag = "Witness"
    /\ IsConstantValue(ctx, call.ret[1], 85)
    /\ Emitted = <<>>

\* the last call bounded lhs + offset by rhs under the constant predicate 1
CalledBound ==
    /\ call.op = "bound_constraint_with_offset"
    /\ IsConstantValue(call.pre, call.args[5], 1)

\* the values of the operands are below 2^bits
BelowTwoToThe(bits, asg) ==
    /\ ValueOf(call.pre, call.args[1], asg) < Pow2(bits)
    /\ ValueOf(call.pre, call.args[2], asg) < Pow2(bits)

\* on operands below 2^bits the constraints laid down can be satisfied
\* exactly when lhs + offset <= rhs as integers
BoundIsExact ==
    \A input_values \in [InputWitnesses(call.pre) -> 0 .. Pow2(call.args[4]) - 1] :
        BelowTwoToThe(call.args[4], input_values) =>
            (Solutions(ctx, input_values) # {}
                <=> ValueOf(call.pre, call.args[1], input_values) + ArgConst(3)
                        <= ValueOf(call.pre, call.args[2], input_values))

\* C25: bound_constraint_with_offset aborts unless bits < F::max_num_bits()
\* - 1, and otherwise, on values of lhs and rhs below 2^bits, offset 0 or 1
\* and predicate 1, its constraints are satisfiable exactly when lhs +
\* offset <= rhs.
C25_BoundConstraint ==
    CalledBound =>
        IF call.args[4] < MaxNumBits - 1
            THEN IsOk(ctx) /\ BoundIsExact
            ELSE ctx.status = "panic"

(***************************************************************************)
(* The merge specification: a context of some expression width in which    *)
(* the caller prepared two values, each of any form, and whose entries are *)
(* marked equivalent, in either order and any number of times.             *)
(***************************************************************************)

\* the largest bounded expression width
MaxWidth == 2

Widths == {Unbounded} \cup 1 .. MaxWidth

\* the forms of a prepared value
Forms ==
    {<<"const", k>> : k \in 0 .. SmallConst}
        \cup {<<form, 0>> : form \in {"witness", "expr", "negated", "renegated", "affine",
                                      "sum", "product", "wide"}}

\* the context of a width after the caller prepared two values, and their ids
PreparedPair(width, a, b) ==
    Let([lhs \in {AddOperand(set_expression_width(NewContext, width), a)} |->
    Let([rhs \in {AddOperand(lhs.c, b)} |->
    R(rhs.c, [lhs |-> lhs.v, rhs |-> rhs.v, predicate |-> 0])])])

InitPair ==
    /\ \E width \in Widths, a \in Forms, b \in Forms :
          /\ ctx = PreparedPair(width, a, b).c
          /\ operands = PreparedPair(width, a, b).v
    /\ call = NoCall

MarkVariablesEquivalent(lhs, rhs) ==
    /\ IsOk(ctx)
    /\ Returns("mark_variables_equivalent", <<lhs, rhs>>, NoPayload,
               R(mark_variables_equivalent(ctx, lhs, rhs), << >>))

NextMerge ==
    \E lhs \in {operands.lhs, operands.rhs}, rhs \in {operands.lhs, operands.rhs} :
        MarkVariablesEquivalent(lhs, rhs)

SpecMerge == InitPair /\ [][NextMerge]_vars

\* the last call marked two variables equivalent
CalledMerge == call.op = "mark_variables_equivalent"

\* the two entries are different constants, or different linear expressions
\* of the same number of linear terms
MergeTie(l, r) ==
    /\ l # r
    /\ \/ l.tag = "Const" /\ r.tag = "Const"
       \/ /\ l.tag = "Expr" /\ r.tag = "Expr"
          /\ ExprIsLinear(l.e) /\ ExprIsLinear(r.e)
          /\ Len(l.e.lin) = Len(r.e.lin)

\* C12 as stated: for every pair of entries, marking them equivalent a second
\* time changes nothing, and marking (a, b) gives the table of marking (b, a).
C12_Original ==
    CalledMerge =>
        /\ mark_variables_equivalent(ctx, call.args[1], call.args[2]) = ctx
        /\ mark_variables_equivalent(call.pre, call.args[2], call.args[1]).vars = ctx.vars

\* C12: marking two entries equivalent a second time changes nothing; the
\* order of the arguments changes nothing unless the entries are two
\* different constants or two different linear expressions of the same
\* number of terms, and then both entries take the form of the first argument.
C12_MergeIdempotent ==
    CalledMerge =>
        /\ IsOk(ctx)
        /\ mark_variables_equivalent(ctx, call.args[1], call.args[2]) = ctx
        /\ IF MergeTie(call.pre.vars[call.args[1]], call.pre.vars[call.args[2]])
               THEN /\ ctx.vars[call.args[1]] = call.pre.vars[call.args[1]]
                    /\ ctx.vars[call.args[2]] = call.pre.vars[call.args[1]]
                    /\ mark_variables_equivalent(call.pre, call.args[2], call.args[1]).vars
                           # ctx.vars
           ELSE mark_variables_equivalent(call.pre, call.args[2], call.args[1]).vars = ctx.vars

\* the constants 1 and 2 marked equivalent: both entries hold 1
C12_Witness ==
    /\ CalledMerge
    /\ IsConstantValue(call.pre, call.args[1], 1)
    /\ IsConstantValue(call.pre, call.args[2], 2)
    /\ IsConstantValue(ctx, call.args[1], 1)
    /\ IsConstantValue(ctx, call.args[2], 1)

(***************************************************************************)
(* The build specification: a context of some expression width on which    *)
(* the caller declares witnesses and constants, multiplies and adds them,  *)
(* asserts equalities, and which it finishes.                              *)
(***************************************************************************)

\* the largest number of variables of a build
MaxVars == 2

\* the largest number of opcodes of a build
MaxOpcodes == 1

BuildConstants == {0, 1}

\* the warnings a caller passes to finish
WarningLists == {<< >>, <<AssertFailed("attempt to divide by zero")>>}

Growing == IsOk(ctx) /\ Cardinality(DOMAIN ctx.vars) < MaxVars

AddVariable ==
    Returns("add_variable", << >>, NoPayload, One(add_variable(ctx, "input")))

AddConstant(k) ==
    Returns("add_constant", <<k>>, NoPayload, One(add_constant(ctx, k)))

MulVar(lhs, rhs) ==
    Returns("mul_var", <<lhs, rhs>>, NoPayload, One(mul_var(ctx, lhs, rhs)))

AddVar(lhs, rhs) ==
    Returns("add_var", <<lhs, rhs>>, NoPayload, One(add_var(ctx, lhs, rhs)))

AssertEqVar(lhs, rhs, payload) ==
    /\ IsOk(ctx)
    /\ Len(ctx.opcodes) < MaxOpcodes
    /\ Returns("assert_eq_var", <<lhs, rhs>>, payload,
               R(assert_eq_var(ctx, lhs, rhs, payload), << >>))

VarToWitness(var) ==
    Returns("var_to_witness", <<var>>, NoPayload, One(var_to_witness(ctx, var)))

GetOrCreateWitnessVar(var) ==
    Returns("get_or_create_witness_var", <<var>>, NoPayload,
            One(get_or_create_witness_var(ctx, var)))

\* the transcript may take the opcode that binds one more witness
Binding == IsOk(ctx) /\ Len(ctx.opcodes) <= MaxOpcodes

\* finish consumes the context and hands the GeneratedAcir back
Finish(warnings) ==
    /\ IsOk(ctx)
    /\ ctx' = [ctx EXCEPT !.status = "finished"]
    /\ call' = [Call("finish", <<warnings>>, NoPayload, << >>, ctx)
                   EXCEPT !.acir = finish(ctx, << >>, << >>, warnings)]
    /\ UNCHANGED operands

ReadFromMemory(block_id, index) ==
    Returns("read_from_memory", <<block_id, index>>, NoPayload,
            One(read_from_memory(ctx, block_id, index)))

WriteToMemory(block_id, index, value) ==
    Returns("write_to_memory", <<block_id, index, value>>, NoPayload,
            R(write_to_memory(ctx, block_id, index, value), << >>))

InitializeReturnData(block_id, init) ==
    Returns("initialize_return_data", <<block_id, init>>, NoPayload,
            R(initialize_return_data(ctx, block_id, init), << >>))

InitializeArray(block_id, len, optional_value, databus) ==
    Returns("initialize_array", <<block_id, len, optional_value, databus>>, NoPayload,
            R(initialize_array(ctx, block_id, len, optional_value, databus), << >>))

Flatten(value) ==
    Returns("flatten", <<value>>, NoPayload, flatten(ctx, value))

CallAcirFunction(id, inputs, output_count, predicate) ==
    Returns("call_acir_function", <<id, inputs, output_count, predicate>>, NoPayload,
            call_acir_function(ctx, id, inputs, output_count, predicate))

\* the memory blocks of a build
BlockIds == {0}

\* the values a caller holds: a variable, an array of one variable, or the
\* dynamic array of one element of a block
Values(held) ==
    {Var(v, NativeField) : v \in held}
        \cup {Array(<<Var(v, NativeField)>>) : v \in held}
        \cup {DynamicArray(b, 1, <<NativeField>>) : b \in BlockIds}

InitBuild ==
    /\ \E width \in Widths : ctx = set_expression_width(NewContext, width)
    /\ call = NoCall
    /\ operands = [lhs |-> 0, rhs |-> 0, predicate |-> 0]

NextBuild ==
    \/ Growing /\ AddVariable
    \/ \E k \in BuildConstants : Growing /\ AddConstant(k)
    \/ \E lhs \in DOMAIN ctx.vars, rhs \in DOMAIN ctx.vars : Growing /\ MulVar(lhs, rhs)
    \/ \E lhs \in DOMAIN ctx.vars, rhs \in DOMAIN ctx.vars : Growing /\ AddVar(lhs, rhs)
    \/ \E lhs \in DOMAIN ctx.vars, rhs \in DOMAIN ctx.vars, payload \in Payloads :
          AssertEqVar(lhs, rhs, payload)
    \/ \E var \in DOMAIN ctx.vars : Binding /\ VarToWitness(var)
    \/ \E var \in DOMAIN ctx.vars : Binding /\ Growing /\ GetOrCreateWitnessVar(var)
    \/ \E warnings \in WarningLists : Finish(warnings)

SpecBuild == InitBuild /\ [][NextBuild]_vars

\* C4: under ExpressionWidth::Bounded(k), the difference assert_eq_var
\* pushes as an arithmetic identity has at most one multiplicative term and a
\* width of at most k.
C4_IdentitiesFitTheWidth ==
    (call.op = "assert_eq_var" /\ call.pre.expression_width # Unbounded) =>
        \A i \in DOMAIN Emitted :
            /\ Len(Emitted[i].e.mul) <= 1
            /\ ExprWidth(Emitted[i].e) <= call.pre.expression_width

\* C9: every warning assert_eq_var recorded during the build is among the
\* warnings of the GeneratedAcir finish returns, whatever warnings the caller
\* passes to finish.
C9_WarningsDelivered ==
    call.op = "finish" =>
        \A i \in DOMAIN call.pre.warnings :
            \E j \in DOMAIN call.acir.warnings :
                call.acir.warnings[j] = call.pre.warnings[i]

\* the last call asserted the equality of two variables that hold constants
ConstantAssertion ==
    /\ call.op = "assert_eq_var"
    /\ is_constant(call.pre, call.args[1]) /\ is_constant(call.pre, call.args[2])

\* C15: on the constants c1 and c2, assert_eq_var emits no opcode and records
\* no warning when c1 = c2; when c1 # c2 it emits exactly one opcode, the
\* assert_is_zero of the constant c1 - c2, appends exactly one warning, and
\* attaches the payload, if one is given, to the location of that opcode.
C15_ConstantAssertion ==
    ConstantAssertion =>
        /\ IsOk(ctx)
        /\ IF ArgConst(1) = ArgConst(2)
               THEN /\ Emitted = <<>>
                    /\ ctx.warnings = call.pre.warnings
                    /\ ctx.assertion_payloads = call.pre.assertion_payloads
           ELSE /\ Emitted = <<AssertZeroOp(ExprFromConst(FSub(ArgConst(1), ArgConst(2))))>>
                /\ Len(ctx.warnings) = Len(call.pre.warnings) + 1
                /\ SubSeq(ctx.warnings, 1, Len(call.pre.warnings)) = call.pre.warnings
                /\ ctx.warnings[Len(ctx.warnings)].kind = "AssertFailed"
                /\ IF call.payload = NoPayload
                       THEN ctx.assertion_payloads = call.pre.assertion_payloads
                   ELSE /\ DOMAIN ctx.assertion_payloads =
                               (DOMAIN call.pre.assertion_payloads)
                                   \cup {last_acir_opcode_location(ctx)}
                        /\ ctx.assertion_payloads[last_acir_opcode_location(ctx)]
                               = call.payload

\* the constants 0 and 1 asserted equal with a message: the opcode
\* assert_is_zero(-1), one warning, the message at the location of the opcode
C15_Witness ==
    /\ ConstantAssertion
    /\ ArgConst(1) = 0 /\ ArgConst(2) = 1
    /\ call.payload # NoPayload
    /\ ctx.opcodes = <<AssertZeroOp(ExprFromConst(FNeg(1)))>>
    /\ Len(ctx.warnings) = 1
    /\ ctx.assertion_payloads[0] = call.payload

\* the witnesses the transcript binds to the constant k
ConstantBindings(c, k) ==
    {i \in DOMAIN c.wkind : c.wkind[i].kind = "derived" /\ c.wkind[i].e = ExprFromConst(k)}

\* the constants the transcript binds a witness to
BoundConstants(c) ==
    {c.wkind[i].e.qc : i \in {j \in DOMAIN c.wkind : /\ c.wkind[j].kind = "derived"
                                                       /\ ExprIsConst(c.wkind[j].e)}}

\* the last call asked for the witness of a variable that holds a constant
CalledWitnessOfConstant ==
    /\ call.op = "var_to_witness"
    /\ Declared(call.pre, call.args[1]) /\ is_constant(call.pre, call.args[1])

\* C14: an entry of the constant-to-witness cache never changes once set; no
\* constant is bound to more than one witness; and var_to_witness on a
\* variable that holds the constant c returns the cached witness of c,
\* allocating no witness and emitting no opcode when c was cached already
\* (so two variables holding c get the same witness).
C14_ConstantWitnessMemoized ==
    /\ \A k \in DOMAIN call.pre.constant_witnesses :
          /\ k \in DOMAIN ctx.constant_witnesses
          /\ ctx.constant_witnesses[k] = call.pre.constant_witnesses[k]
    /\ \A k \in BoundConstants(ctx) \cup DOMAIN ctx.constant_witnesses :
          /\ Cardinality(ConstantBindings(ctx, k)) <= 1
          /\ k \in DOMAIN ctx.constant_witnesses
                => ConstantBindings(ctx, k) = {ctx.constant_witnesses[k] + 1}
    /\ CalledWitnessOfConstant =>
          /\ IsOk(ctx)
          /\ ArgConst(1) \in DOMAIN ctx.constant_witnesses
          /\ call.ret[1] = ctx.constant_witnesses[ArgConst(1)]
          /\ ArgConst(1) \in DOMAIN call.pre.constant_witnesses
                => ctx.wkind = call.pre.wkind /\ Emitted = <<>>

\* the witness of a second variable that holds the constant 1, after the
\* witness of the first was asked for: the cached one
C14_Witness ==
    /\ CalledWitnessOfConstant
    /\ DOMAIN call.pre.vars = {0, 1}
    /\ IsConstantValue(call.pre, 0, 1) /\ IsConstantValue(call.pre, 1, 1)
    /\ call.args[1] = 1
    /\ 1 \in DOMAIN call.pre.constant_witnesses
    /\ call.pre.opcodes =
           <<AssertZeroOp(ExprSub(ExprFromConst(1), ExprFromWitness(call.ret[1])))>>
    /\ ctx.opcodes = call.pre.opcodes

(***************************************************************************)
(* The algebra specification: a context of some expression width in which  *)
(* the caller prepared two values, each of any form, and on which one      *)
(* operation of the arithmetic or of the bitwise layer is made.            *)
(***************************************************************************)

NegVar(var) ==
    Returns("neg_var", <<var>>, NoPayload, One(neg_var(ctx, var)))

SubVar(lhs, rhs) ==
    Returns("sub_var", <<lhs, rhs>>, NoPayload, One(sub_var(ctx, lhs, rhs)))

XorVar(lhs, rhs, bit_size) ==
    Returns("xor_var", <<lhs, rhs, bit_size>>, NoPayload, One(xor_var(ctx, lhs, rhs, bit_size)))

AndVar(lhs, rhs, bit_size) ==
    Returns("and_var", <<lhs, rhs, bit_size>>, NoPayload, One(and_var(ctx, lhs, rhs, bit_size)))

OrVar(lhs, rhs, bit_size) ==
    Returns("or_var", <<lhs, rhs, bit_size>>, NoPayload, One(or_var(ctx, lhs, rhs, bit_size)))

\* the two prepared values
Pair == {operands.lhs, operands.rhs}

NextAlg ==
    \/ \E var \in Pair : Ready /\ NegVar(var)
    \/ \E lhs \in Pair, rhs \in Pair : Ready /\ AddVar(lhs, rhs)
    \/ \E lhs \in Pair, rhs \in Pair : Ready /\ SubVar(lhs, rhs)
    \/ \E lhs \in Pair, rhs \in Pair : Ready /\ MulVar(lhs, rhs)
    \/ \E lhs \in Pair, rhs \in Pair, bs \in BitSizes : Ready /\ XorVar(lhs, rhs, bs)
    \/ \E lhs \in Pair, rhs \in Pair, bs \in BitSizes : Ready /\ AndVar(lhs, rhs, bs)
    \/ \E lhs \in Pair, rhs \in Pair, bs \in BitSizes : Ready /\ OrVar(lhs, rhs, bs)

SpecAlg == InitPair /\ [][NextAlg]_vars

\* the entry is stored with the Expr form and holds a constant or a bare witness
Collapsed(data) ==
    data.tag = "Expr" /\ (ExprIsConst(data.e) \/ ExprIsWitness(data.e))

\* C13: no entry of the value table stored with the Expr form holds an
\* expression that is a constant or a bare witness, whatever operations
\* (neg_var, add_var, sub_var, mul_var) built the entries.
C13_NoCollapsedExpr ==
    IsOk(ctx) => \A v \in DOMAIN ctx.vars : ~Collapsed(ctx.vars[v])

\* the last call pushed no opcode and allocated no witness
NoLeak == ctx.opcodes = call.pre.opcodes /\ ctx.wkind = call.pre.wkind

\* the i-th argument of the last call held the constant k
ArgIs(i, k) == IsConstantValue(call.pre, call.args[i], k)

\* the identities of C17 other than the products by the constant 1
ZeroAndSelfIdentities ==
    /\ (call.op = "mul_var" /\ (ArgIs(1, 0) \/ ArgIs(2, 0)))
          => IsOk(ctx) /\ IsConstantValue(ctx, call.ret[1], 0) /\ NoLeak
    /\ (call.op = "xor_var" /\ call.args[1] = call.args[2])
          => IsOk(ctx) /\ IsConstantValue(ctx, call.ret[1], 0) /\ NoLeak
    /\ (call.op = "and_var" /\ call.args[1] = call.args[2])
          => IsOk(ctx) /\ call.ret[1] = call.args[1] /\ NoLeak

\* C17 as stated: for x of any form and any bit size, with no opcode and no
\* witness, mul_var(x, 0) and mul_var(0, x) are the constant 0, mul_var(x, 1)
\* and mul_var(1, x) return the id x, xor_var(x, x) is the constant 0 and
\* and_var(x, x) returns x.
C17_Original ==
    /\ ZeroAndSelfIdentities
    /\ (call.op = "mul_var" /\ ArgIs(2, 1))
          => IsOk(ctx) /\ call.ret[1] = call.args[1] /\ NoLeak
    /\ (call.op = "mul_var" /\ ArgIs(1, 1))
          => IsOk(ctx) /\ call.ret[1] = call.args[2] /\ NoLeak

\* C17: for x of any form and any bit size, with no opcode and no witness,
\* mul_var(x, 0) and mul_var(0, x) are the constant 0, xor_var(x, x) is the
\* constant 0, and_var(x, x) returns x, mul_var(1, x) returns the id x, and
\* mul_var(x, 1) returns the id x unless x is the constant 1 too, when it
\* returns the id of its second argument.
C17_ShortCircuits ==
    /\ ZeroAndSelfIdentities
    /\ (call.op = "mul_var" /\ ArgIs(1, 1))
          => IsOk(ctx) /\ call.ret[1] = call.args[2] /\ ctx = call.pre
    /\ (call.op = "mul_var" /\ ArgIs(2, 1) /\ ~ArgIs(1, 1))
          => IsOk(ctx) /\ call.ret[1] = call.args[1] /\ ctx = call.pre

\* the product of two constants 1 of different ids is the second, and the
\* table is as it was
C17_Witness ==
    /\ call.op = "mul_var"
    /\ ArgIs(1, 1) /\ ArgIs(2, 1)
    /\ call.args[1] # call.args[2]
    /\ call.ret[1] = call.args[2]
    /\ ctx = call.pre

\* the transcript after the variable var is asserted equal to a new constant 0
AssertedZero(c, var) ==
    Let([zero \in {add_constant(c, 0)} |->
    assert_eq_var(zero.c, var, zero.v, NoPayload).opcodes])

\* the last call subtracted a variable from itself: the result is the
\* constant 0, whose assertion against the constant 0 emits no opcode, and
\* the call pushed no opcode and allocated no witness
SubtractedFromItself ==
    (call.op = "sub_var" /\ call.args[1] = call.args[2])
        => /\ IsOk(ctx)
           /\ IsConstantValue(ctx, call.ret[1], 0)
           /\ NoLeak
           /\ AssertedZero(ctx, call.ret[1]) = ctx.opcodes

\* the last call added the constant 0 to a variable
AddedZero == call.op = "add_var" /\ ArgIs(2, 0)

\* the expression of the variable the constant 0 was added to
Augend == var_to_expression(call.pre, call.args[1])

\* C18 as stated: under every expression width and for x of any form,
\* add_var(x, 0) is a value with the polynomial of x and sub_var(x, x) is the
\* constant 0, whose assertion against the constant 0 emits no opcode;
\* neither call pushes an opcode or allocates a witness.
C18_Original ==
    /\ AddedZero => /\ IsOk(ctx)
                    /\ var_to_expression(ctx, call.ret[1]) = Augend
                    /\ NoLeak
    /\ SubtractedFromItself

\* C18: sub_var(x, x) is the constant 0 under every expression width, with
\* no opcode and no witness.  add_var(x, 0) is a value with the polynomial of
\* x, with no opcode and no witness, when x fits one identity of the width;
\* when it does not, add_var(x, 0) binds a new witness to x with one opcode
\* and returns a value that holds that witness.
C18_AdditiveIdentities ==
    /\ SubtractedFromItself
    /\ AddedZero =>
          /\ IsOk(ctx)
          /\ IF fits_in_one_identity(Augend, call.pre.expression_width)
                 THEN var_to_expression(ctx, call.ret[1]) = Augend /\ NoLeak
             ELSE /\ Len(ctx.wkind) = Len(call.pre.wkind) + 1
                  /\ ctx.wkind[Len(ctx.wkind)] = [kind |-> "derived", e |-> Augend]
                  /\ Emitted = <<AssertZeroOp(ExprSub(Augend,
                                                      ExprFromWitness(Len(call.pre.wkind))))>>
                  /\ ctx.vars[call.ret[1]] = Witness(Len(call.pre.wkind))

\* the constant 0 added to the sum of two witnesses under the width 1: the
\* sum is bound to a new witness
C18_Witness ==
    /\ AddedZero
    /\ call.pre.expression_width = 1
    /\ ExprWidth(Augend) = 2
    /\ Len(Emitted) = 1
    /\ ctx.vars[call.ret[1]].tag = "Witness"

(***************************************************************************)
(* The radix specification: a context in which the caller prepared an      *)
(* input (a constant, a witness or an expression) and a radix (a constant  *)
(* or, by mistake, a witness), and on which the input is decomposed into a *)
(* number of limbs, in either endianness.                                  *)
(***************************************************************************)

\* the largest radix
MaxRadix == 10

\* the largest number of limbs
MaxLimbs == 3

Radixes == {<<"const", radix>> : radix \in 2 .. MaxRadix} \cup {<<"witness", 0>>}

InitRadix ==
    /\ \E a \in Operands, b \in Radixes :
          /\ ctx = PreparedPair(Unbounded, a, b).c
          /\ operands = PreparedPair(Unbounded, a, b).v
    /\ call = NoCall

RadixDecompose(endian, input_var, radix_var, limb_count) ==
    Returns("radix_decompose", <<endian, input_var, radix_var, limb_count>>, NoPayload,
            radix_decompose(ctx, endian, input_var, radix_var, limb_count))

BitDecompose(endian, input_var, limb_count) ==
    Returns("bit_decompose", <<endian, input_var, limb_count>>, NoPayload,
            bit_decompose(ctx, endian, input_var, limb_count))

NextRadix ==
    \/ \E endian \in {Little, Big}, limb_count \in 1 .. MaxLimbs :
          Ready /\ RadixDecompose(endian, operands.lhs, operands.rhs, limb_count)
    \/ \E endian \in {Little, Big}, limb_count \in 1 .. MaxLimbs :
          Ready /\ BitDecompose(endian, operands.lhs, limb_count)

SpecRadix == InitRadix /\ [][NextRadix]_vars

RECURSIVE Power(_, _)
Power(b, n) == IF n = 0 THEN 1 ELSE b * Power(b, n - 1)

\* the last call decomposed an input over a constant radix
CalledRadix ==
    /\ call.op = "radix_decompose"
    /\ is_constant(call.pre, call.args[3])

\* the position, among the limbs of the container, of the i-th returned limb
LimbOrder(i) == IF call.args[1] = Little THEN i ELSE call.args[4] + 1 - i

\* the returned variables are the witnesses the container returned, in the
\* order of the container for Little and in the reversed order for Big
LimbsInOrder ==
    /\ Len(call.ret) = call.args[4]
    /\ Emitted[1].op = "BrilligCall" /\ Emitted[1].func = "ToLeRadix"
    /\ \A i \in DOMAIN call.ret :
          ctx.vars[call.ret[i]] = Witness(Emitted[1].outputs[LimbOrder(i)])

\* the values the returned limbs take over the assignments that extend iv and
\* satisfy the transcript
LimbValues(iv) ==
    {[i \in DOMAIN call.ret |-> ValueOf(ctx, call.ret[i], s)] : s \in Solutions(ctx, iv)}

\* the limbs of every input value that fits the limbs are its digits over the
\* radix, the least significant first for Little and last for Big
LimbsAreDigits ==
    \A iv \in [InputWitnesses(call.pre) -> F] :
        LET x == ValueOf(call.pre, call.args[2], iv)
            radix == ArgConst(3)
        IN  x < Power(radix, call.args[4])
                => LimbValues(iv) =
                       {[i \in 1 .. call.args[4] |->
                            (x \div Power(radix, LimbOrder(i) - 1)) % radix]}

\* the decomposition of the constant 19 over the radix 10 into 3 limbs, Big
BigNineteen ==
    /\ CalledRadix
    /\ call.args[1] = Big
    /\ IsConstantValue(call.pre, call.args[2], 19)
    /\ ArgConst(3) = 10
    /\ call.args[4] = 3

\* C16 as stated: radix_decompose returns the limbs of the container
\* unchanged for Little and reversed for Big, and the limbs of the constant
\* 19 over the radix 10, 3 limbs, Big, take the values [1, 9, 0].
C16_Original ==
    /\ CalledRadix => IsOk(ctx) /\ LimbsInOrder /\ LimbsAreDigits
    /\ BigNineteen => LimbValues(<< >>) = {<<1, 9, 0>>}

\* C16: radix_decompose returns the limbs of the container (the digits of
\* the input over the radix, the least significant first) unchanged for
\* Little and reversed for Big; the limbs of the constant 19 over the radix
\* 10, 3 limbs, Big, take the values [0, 1, 9].
C16_RadixDecompose ==
    /\ CalledRadix => IsOk(ctx) /\ LimbsInOrder /\ LimbsAreDigits
    /\ BigNineteen => LimbValues(<< >>) = {<<0, 1, 9>>}

\* 19 over the radix 10 into 3 limbs, Big: the last limb returned is the
\* first of the container and takes the value 9
C16_Witness ==
    /\ BigNineteen
    /\ ctx.vars[call.ret[3]] = Witness(Emitted[1].outputs[1])
    /\ LimbValues(<< >>) = {<<0, 1, 9>>}

(***************************************************************************)
(* The table specification: after two operands have been prepared, any     *)
(* sequence of assert_eq_var and get_or_create_witness_var on them, which  *)
(* merge, and of add_variable, add_constant and mul_var, which add to      *)
(* the table, MaxNew more ids at most.                                     *)
(***************************************************************************)
MaxNew == 1

\* the forms of the operands: two constants, a witness, a linear
\* expression of one term and one of two
TableForms ==
    {<<"const", 0>>, <<"const", 1>>, <<"witness", 0>>, <<"expr", 0>>, <<"sum", 0>>}

InitTable ==
    /\ \E width \in Widths, a \in TableForms, b \in TableForms :
          /\ ctx = PreparedPair(width, a, b).c
          /\ operands = PreparedPair(width, a, b).v
    /\ call = NoCall

\* the operands are the last ids of the preparation: the table may grow by
\* MaxNew ids
Room == IsOk(ctx) /\ Cardinality(DOMAIN ctx.vars) <= operands.rhs + MaxNew

NextTable ==
    \/ \E lhs \in Pair, rhs \in Pair : AssertEqVar(lhs, rhs, NoPayload)
    \/ \E var \in Pair : Room /\ GetOrCreateWitnessVar(var)
    \/ Room /\ AddVariable
    \/ \E k \in 0 .. 1 : Room /\ AddConstant(k)
    \/ \E lhs \in Pair, rhs \in Pair : Room /\ MulVar(lhs, rhs)

SpecTable == InitTable /\ [][NextTable]_vars

(***************************************************************************)
(* The memory specification: one memory operation or call on the operands  *)
(* the caller prepared.                                                    *)
(***************************************************************************)
NextMem ==
    \/ \E b \in BlockIds, index \in Pair : Ready /\ ReadFromMemory(b, index)
    \/ \E b \in BlockIds, index \in Pair, value \in Pair :
          Ready /\ WriteToMemory(b, index, value)
    \/ \E b \in BlockIds, init \in {<< >>} \cup {<<w - 1>> : w \in DOMAIN ctx.wkind} :
          Ready /\ InitializeReturnData(b, init)
    \/ \E b \in BlockIds, len \in 0 .. 1, value \in {NoValue} \cup Values(Pair) :
          Ready /\ InitializeArray(b, len, value, "Memory")
    \/ \E value \in Values(Pair) : Ready /\ Flatten(value)
    \/ \E inputs \in {<< >>} \cup {<<value>> : value \in Values(Pair)},
          output_count \in 0 .. 1, predicate \in Pair :
          Ready /\ CallAcirFunction(0, inputs, output_count, predicate)

SpecMem == InitTable /\ [][NextMem]_vars

\* the operations of the table that return a variable id
ReturnsVar ==
    call.op \in {"add_variable", "add_constant", "mul_var", "add_var",
                 "get_or_create_witness_var"}

\* the last call changed the data of an id that was already in the table,
\* which only mark_variables_equivalent does
Merged ==
    \E v \in DOMAIN call.pre.vars \cap DOMAIN ctx.vars :
        ctx.vars[v] # call.pre.vars[v]

\* C20: as long as no operation has failed, every id that was in the table
\* before the last call is still declared after it, merges included, the
\* table never shrinks, a returned id is declared, every id the call added
\* is at least the size the table had before the call, and the id add_data
\* issues next, the size of the table, is not in the table.
C20_IdsNeverReissued ==
    ctx.status \notin {"err", "panic"} =>
        /\ DOMAIN call.pre.vars \subseteq DOMAIN ctx.vars
        /\ Cardinality(DOMAIN ctx.vars) >= Cardinality(DOMAIN call.pre.vars)
        /\ ReturnsVar => Declared(ctx, call.ret[1])
        /\ \A v \in DOMAIN ctx.vars \ DOMAIN call.pre.vars :
               v >= Cardinality(DOMAIN call.pre.vars)
        /\ Cardinality(DOMAIN ctx.vars) \notin DOMAIN ctx.vars

\* an add_variable after a merge: the table before the call holds the
\* witness operands 0 and 1 merged into one witness, and the call returns
\* the id 2, which was not in the table
C20_Witness ==
    /\ call.op = "add_variable"
    /\ IsOk(ctx)
    /\ DOMAIN call.pre.vars = {0, 1}
    /\ call.pre.vars[0].tag = "Witness"
    /\ call.pre.vars[1] = call.pre.vars[0]
    /\ call.ret = <<2>>
    /\ DOMAIN ctx.vars = {0, 1, 2}
    /\ ctx.vars[2] # ctx.vars[0]

\* the last call asked for the witness variable of a value
CalledGetOrCreate == call.op = "get_or_create_witness_var"

\* the value asked for was a single witness already
AlreadyWitness == ExprIsWitness(var_to_expression(call.pre, call.args[1]))

\* C22 as stated: a value that is a single witness is returned itself; for
\* every other value, a constant included, the id returned is new and its
\* form after the merge is Wit.
C22_Original ==
    CalledGetOrCreate =>
        /\ IsOk(ctx)
        /\ IF AlreadyWitness
               THEN call.ret = <<call.args[1]>> /\ ctx = call.pre
               ELSE /\ call.ret[1] \notin DOMAIN call.pre.vars
                    /\ ctx.vars[call.ret[1]].tag = "Witness"

\* C22: a value that is a single witness is returned itself and nothing
\* changes; for every other value the id returned is new and, after the
\* merge, holds the same data as the value asked for: the constant itself
\* when the value was a constant, the materialized witness otherwise.
C22_GetOrCreateWitnessVar ==
    CalledGetOrCreate =>
        /\ IsOk(ctx)
        /\ IF AlreadyWitness
               THEN call.ret = <<call.args[1]>> /\ ctx = call.pre
               ELSE /\ call.ret[1] \notin DOMAIN call.pre.vars
                    /\ ctx.vars[call.ret[1]] = ctx.vars[call.args[1]]
                    /\ IF call.pre.vars[call.args[1]].tag = "Const"
                           THEN ctx.vars[call.ret[1]] = call.pre.vars[call.args[1]]
                           ELSE ctx.vars[call.ret[1]].tag = "Witness"

\* the witness variable of the constant 1, under id 0: the id returned is
\* new and holds the constant 1, and an opcode binds the witness made for it
C22_Witness ==
    /\ CalledGetOrCreate
    /\ call.args = <<0>>
    /\ IsConstantValue(call.pre, 0, 1)
    /\ call.ret[1] \notin DOMAIN call.pre.vars
    /\ IsConstantValue(ctx, call.ret[1], 1)
    /\ Len(Emitted) = 1

\* the last call added two values under a width of at least 2
BoundedSum == call.op = "add_var" /\ call.pre.expression_width >= 2 /\ IsOk(ctx)

\* C23: under ExpressionWidth::Bounded(k) with k >= 2 the value add_var
\* stores fits in one identity, whatever the widths of the operands.
C23_SumFitsTheWidth ==
    BoundedSum =>
        fits_in_one_identity(var_to_expression(ctx, call.ret[1]), call.pre.expression_width)

\* the values the witness assignments give an input: a polynomial of degree
\* at most 2 in each input is determined by its values on them
Samples == {0, 1, 2}

\* the last call multiplied two values
CalledMul == call.op = "mul_var"

\* the call took the general case: only that case allocates a witness
ForcedToWitnesses == CalledMul /\ Len(ctx.wkind) > Len(call.pre.wkind)

\* under every assignment that satisfies the transcript, the value stored is
\* the product of the values the operands had before the call
StoresTheProduct ==
    \A input_values \in [InputWitnesses(ctx) -> Samples] :
        /\ Solutions(ctx, input_values) # {}
        /\ \A asg \in Solutions(ctx, input_values) :
               ValueOf(ctx, call.ret[1], asg)
                   = FMul(ValueOf(call.pre, call.args[1], asg),
                          ValueOf(call.pre, call.args[2], asg))

\* the product stored is the single term of the witnesses of the operands
LandsInWitnessTimesWitness ==
    /\ ctx.vars[call.args[1]].tag = "Witness"
    /\ ctx.vars[call.args[2]].tag = "Witness"
    /\ ctx.vars[call.ret[1]]
           = Expr(Expression(<< <<1, ctx.vars[call.args[1]].w, ctx.vars[call.args[2]].w>> >>,
                             << >>, 0))

\* the operand i was stored as an Expr that is a single witness, which
\* get_or_create_witness_var returns as it is, and the operand j became a
\* witness: the product stored is that of a linear expression and a witness
LandsInExprTimesWitness(i, j) ==
    /\ ctx.vars[call.args[i]] = call.pre.vars[call.args[i]]
    /\ ctx.vars[call.args[i]].tag = "Expr"
    /\ ExprIsWitness(ctx.vars[call.args[i]].e)
    /\ ctx.vars[call.args[j]].tag = "Witness"
    /\ ctx.vars[call.ret[1]]
           = Expr(MulLinearByWitness(ctx.vars[call.args[i]].e, ctx.vars[call.args[j]].w))

\* what mul_var does on every pair of stored forms: the value stored is the
\* product, and the general case multiplies again once, adding three ids at
\* most, and lands in the case of two witnesses unless an operand stored as
\* an Expr is a single witness
ProductOnEveryPath ==
    /\ CalledMul => IsOk(ctx) /\ StoresTheProduct
    /\ ForcedToWitnesses =>
          /\ Cardinality(DOMAIN ctx.vars) <= Cardinality(DOMAIN call.pre.vars) + 3
          /\ \/ LandsInWitnessTimesWitness
             \/ LandsInExprTimesWitness(1, 2)
             \/ LandsInExprTimesWitness(2, 1)

\* C24: for operands of every combination of forms, the value mul_var
\* stores is the product of the operands under every assignment satisfying
\* the transcript, and the fallback that forces both operands to witnesses
\* lands in the case of two witnesses.
C24_MulVarStoresTheProduct ==
    /\ CalledMul => IsOk(ctx) /\ StoresTheProduct
    /\ ForcedToWitnesses => LandsInWitnessTimesWitness

(***************************************************************************)
(* The power specification: power_of_two on every power up to MaxPower.    *)
(***************************************************************************)
MaxPower == 128

InitPower ==
    /\ ctx = NewContext
    /\ call = NoCall
    /\ \E power \in 0 .. MaxPower : operands = [lhs |-> power, rhs |-> 0, predicate |-> 0]

\* power_of_two::<F>(power): the element, or the panic
PowerOfTwo ==
    /\ Ready
    /\ Returns("power_of_two", <<operands.lhs>>, NoPayload,
               IF PowerOfTwoFits(operands.lhs)
                   THEN R(ctx, <<power_of_two(operands.lhs)>>)
                   ELSE R(Fail(ctx, "panic"), << >>))

NextPower == PowerOfTwo

SpecPower == InitPower /\ [][NextPower]_vars

\* FieldElement::pow: repeated multiplication in the field
RECURSIVE FPow(_, _)
FPow(b, e) == IF e = 0 THEN 1 ELSE FMul(b, FPow(b, e - 1))

\* C21: power_of_two(n) returns 2^n, the value of the generic
\* exponentiation and the integer 2^n itself, for every n below
\* F::max_num_bits(), and panics for every n from F::max_num_bits() on.
C21_PowerOfTwo ==
    call.op = "power_of_two" =>
        IF call.args[1] < MaxNumBits
            THEN /\ IsOk(ctx)
                 /\ call.ret = <<FPow(2, call.args[1])>>
                 /\ call.ret[1] = 2 ^ call.args[1]
            ELSE ctx.status = "panic" /\ call.ret = << >>

\* the largest power the field represents: 2^6 = 64, below the modulus 127
C21_Witness ==
    /\ call.op = "power_of_two"
    /\ call.args[1] = MaxNumBits - 1
    /\ IsOk(ctx)
    /\ call.ret = <<64>>

(***************************************************************************)
(* The comparison specification: a context in which the caller prepared    *)
(* two operands, constants or input witnesses, and on which one comparison *)
(* is made.                                                                *)
(***************************************************************************)
\* the largest constant compared
MaxCmpConst == 7

CmpOperands == {<<"const", k>> : k \in 0 .. MaxCmpConst} \cup {<<"witness", 0>>}

InitCmp ==
    /\ \E a \in CmpOperands, b \in CmpOperands :
          /\ ctx = PreparedPair(Unbounded, a, b).c
          /\ operands = PreparedPair(Unbounded, a, b).v
    /\ call = NoCall

MoreThanEqVar(lhs, rhs, max_bits) ==
    Returns("more_than_eq_var", <<lhs, rhs, max_bits>>, NoPayload,
            One(more_than_eq_var(ctx, lhs, rhs, max_bits)))

LessThanVar(lhs, rhs, bit_size) ==
    Returns("less_than_var", <<lhs, rhs, bit_size>>, NoPayload,
            One(less_than_var(ctx, lhs, rhs, bit_size)))

LessThanSigned(lhs, rhs, bit_count, build) ==
    Returns("less_than_signed", <<lhs, rhs, bit_count>>, NoPayload,
            One(less_than_signed(ctx, lhs, rhs, bit_count, build)))

\* the widths at which two witnesses, or a witness and any constant, are compared
MaxFreeBits == 2

\* the bit sizes of the signed integers, up to the width of the native
\* integer the offsets are shifted in
SignedBitSizes == HalfNativeBits .. NativeBits

\* the constant operands are values of bits bits; above MaxFreeBits bits a
\* witness is compared with the largest constant
CmpTyped(bits) ==
    /\ OfType(ctx, operands.lhs, bits) /\ OfType(ctx, operands.rhs, bits)
    /\ \/ bits <= MaxFreeBits
       \/ is_constant(ctx, operands.lhs) /\ is_constant(ctx, operands.rhs)
       \/ \E v \in {operands.lhs, operands.rhs} :
             is_constant(ctx, v) /\ ctx.vars[v].c = MaxCmpConst

NextCmp ==
    \/ \E bits \in 1 .. MaxNumBits - 1 :
          Ready /\ CmpTyped(bits) /\ MoreThanEqVar(operands.lhs, operands.rhs, bits)
    \/ \E bits \in 1 .. MaxNumBits - 1 :
          Ready /\ CmpTyped(bits) /\ LessThanVar(operands.lhs, operands.rhs, bits)
    \/ \E bit_count \in SignedBitSizes, build \in Builds :
          Ready /\ CmpTyped(bit_count)
                /\ LessThanSigned(operands.lhs, operands.rhs, bit_count, build)

SpecCmp == InitCmp /\ [][NextCmp]_vars

\* the last call compared two unsigned values
CalledCmp == call.op \in {"more_than_eq_var", "less_than_var"}

\* the values of the input witnesses under which both operands are below
\* 2^bits
CmpInputs(bits) ==
    {iv \in [InputWitnesses(call.pre) -> 0 .. Pow2(bits) - 1] :
        /\ ValueOf(call.pre, call.args[1], iv) < Pow2(bits)
        /\ ValueOf(call.pre, call.args[2], iv) < Pow2(bits)}

\* the values the returned variable takes over the assignments that extend
\* iv and satisfy the transcript
Results(iv) == {ValueOf(ctx, call.ret[1], s) : s \in Solutions(ctx, iv)}

\* 1 for a true comparison, 0 for a false one
Bit(b) == IF b THEN 1 ELSE 0

\* C26: for a and b below 2^bit and bit + 1 < F::max_num_bits(),
\* more_than_eq_var(a, b, bit) is 1 if a >= b and 0 otherwise, and
\* less_than_var(a, b, bit) is 1 if a < b and 0 otherwise, its complement.
C26_UnsignedComparisons ==
    (CalledCmp /\ call.args[3] + 1 < MaxNumBits) =>
        /\ IsOk(ctx)
        /\ \A iv \in CmpInputs(call.args[3]) :
              Results(iv) =
                  {IF call.op = "more_than_eq_var"
                       THEN Bit(ValueOf(call.pre, call.args[1], iv)
                                    >= ValueOf(call.pre, call.args[2], iv))
                       ELSE Bit(ValueOf(call.pre, call.args[1], iv)
                                    < ValueOf(call.pre, call.args[2], iv))}

\* a witness was compared with a constant at the largest width the
\* comparison admits, and it is the smaller
C26_Witness ==
    /\ call.op = "less_than_var" /\ IsOk(ctx)
    /\ call.args[3] = MaxNumBits - 2
    /\ ~is_constant(call.pre, call.args[1])
    /\ IsConstantValue(call.pre, call.args[2], MaxCmpConst)
    /\ \E iv \in CmpInputs(call.args[3]) : Results(iv) = {1}

\* the call made constants of 2^(bit_count-1) and 2^bit_count
OffsetsAreExact ==
    \A n \in {call.args[3] - 1, call.args[3]} :
        \E v \in DOMAIN ctx.vars : IsConstantValue(ctx, v, Pow2(n))

\* C27: for every supported signed bit size and all a, b in two's
\* complement of that size, less_than_signed(a, b, bit_count) is 1 if a < b
\* as signed integers and 0 otherwise; the offsets 2^(bit_count-1) and
\* 2^bit_count built with shifts of the native integer are exact.
C27_SignedComparison ==
    call.op = "less_than_signed" =>
        /\ IsOk(ctx)
        /\ OffsetsAreExact
        /\ \A iv \in CmpInputs(call.args[3]) :
              Results(iv) =
                  {Bit(SignedValue(ValueOf(call.pre, call.args[1], iv), call.args[3])
                           < SignedValue(ValueOf(call.pre, call.args[2], iv), call.args[3]))}

\* the same below the width of the native integer
SignedComparisonBelowNative ==
    call.op = "less_than_signed" /\ call.args[3] < NativeBits => C27_SignedComparison

(***************************************************************************)
(* The inequality specification: a context in which an earlier assertion   *)
(* may have pushed an opcode with its payload, the operands were prepared, *)
(* and on which one inequality is asserted.                                *)
(***************************************************************************)
NeqOperands ==
    {<<"const", k>> : k \in 0 .. SmallConst} \cup {<<"witness", 0>>, <<"sum", 0>>}

EarlierPayload == "earlier assertion"

\* the context after the caller asserted an input witness equal to 1, if it did
Earlier(c, asserted) ==
    IF ~asserted THEN c
    ELSE Let([w \in {add_variable(c, "input")} |->
         Let([one \in {add_constant(w.c, 1)} |->
         assert_eq_var(one.c, w.v, one.v, EarlierPayload)])])

PreparedAfter(width, asserted, a, b, p) ==
    Let([lhs \in {AddOperand(Earlier(set_expression_width(NewContext, width),
                                     asserted), a)} |->
    Let([rhs \in {AddOperand(lhs.c, b)} |->
    Let([predicate \in {AddOperand(rhs.c, p)} |->
    R(predicate.c, [lhs |-> lhs.v, rhs |-> rhs.v, predicate |-> predicate.v])])])])

InitNeq ==
    /\ \E width \in Widths, asserted \in BOOLEAN,
          a \in NeqOperands, b \in NeqOperands, p \in Predicates :
          /\ ctx = PreparedAfter(width, asserted, a, b, p).c
          /\ operands = PreparedAfter(width, asserted, a, b, p).v
    /\ call = NoCall

NextNeq ==
    \E payload \in Payloads :
        AssertNeqVar(operands.lhs, operands.rhs, operands.predicate, payload)

SpecNeq == InitNeq /\ [][NextNeq]_vars

\* C28: assert_neq_var inserts its payload into assertion_payloads only when
\* the call pushed at least one opcode, and then at the location of the last
\* opcode the call pushed; when the call pushes no opcode the map is left
\* unchanged; the payloads of the opcodes emitted before the call stay.
C28_PayloadOfTheInequality ==
    call.op = "assert_neq_var" =>
        /\ \A l \in DOMAIN call.pre.assertion_payloads :
              /\ l \in DOMAIN ctx.assertion_payloads
              /\ ctx.assertion_payloads[l] = call.pre.assertion_payloads[l]
        /\ \A l \in DOMAIN ctx.assertion_payloads \ DOMAIN call.pre.assertion_payloads :
              /\ Emitted # << >>
              /\ l = Len(ctx.opcodes) - 1
              /\ l >= Len(call.pre.opcodes)
              /\ ctx.assertion_payloads[l] = call.payload
        /\ Emitted = << >> => ctx.assertion_payloads = call.pre.assertion_payloads

\* an inequality with a payload, asserted after an earlier opcode, pushed no
\* opcode
C28_Witness ==
    /\ call.op = "assert_neq_var" /\ IsOk(ctx)
    /\ call.payload # NoPayload
    /\ call.pre.opcodes # << >>
    /\ Emitted = << >>
    /\ ctx.assertion_payloads = call.pre.assertion_payloads

\* C29: a value id whose table entry is Const(c) keeps the constant c for
\* the rest of the build: no operation rewrites it to a different constant.
C29_ConstantsKeepTheirValue ==
    \A v \in DOMAIN call.pre.vars :
        is_constant(call.pre, v) =>
            /\ v \in DOMAIN ctx.vars
            /\ ctx.vars[v] = call.pre.vars[v]

(***************************************************************************)
(* BlockVariables: the variables available while one SSA block is compiled *)
(* to Brillig.  The record holds the set of the block, the cache of the    *)
(* function context and the registers of the Brillig context.              *)
(***************************************************************************)
\* the largest value id of the function
MaxValueId == 2

ValueIds == 0 .. MaxValueId

\* dfg.type_of_value
TypeOfValue(value_id) ==
    IF value_id % 3 = 0 THEN "Numeric" ELSE IF value_id % 3 = 1 THEN "Array" ELSE "Slice"

NoVariable == [kind |-> "none", register |-> 0]

\* the least of a set of registers
Least(registers) == CHOOSE r \in registers : \A other \in registers : r <= other

\* allocate_register: the least deallocated register if there is one, the
\* next register otherwise
allocate_register(c) ==
    IF c.deallocated_registers # {}
        THEN R([c EXCEPT !.registers = @ \cup {Least(c.deallocated_registers)},
                         !.deallocated_registers = @ \ {Least(c.deallocated_registers)}],
               Least(c.deallocated_registers))
    ELSE R([c EXCEPT !.registers = @ \cup {c.next_register}, !.next_register = @ + 1],
           c.next_register)

\* deallocate_register: a register is deallocated once
deallocate_register(c, register) ==
    IF register \in c.deallocated_registers THEN Fail(c, "panic")
    ELSE [c EXCEPT !.registers = @ \ {register},
                   !.deallocated_registers = @ \cup {register}]

\* allocate_value_with_type: a variable of the kind of the type, on a
\* register the context allocates
allocate_value_with_type(c, typ) ==
    Let([address \in {allocate_register(c)} |->
    R(address.c,
      [kind |-> IF typ = "Array" THEN "BrilligArray"
                ELSE IF typ = "Slice" THEN "BrilligVector" ELSE "SingleAddr",
       register |-> address.v])])

allocate_value(c, value_id) == allocate_value_with_type(c, TypeOfValue(value_id))

\* BlockVariables::new on a function context that cached the ids of cached
\* on the registers of their numbers
NewBlock(live_in, cached) ==
    [available_variables |-> live_in,
     ssa_value_allocations |->
         [value_id \in cached |->
             allocate_value([registers |-> {}, deallocated_registers |-> {},
                             next_register |-> value_id], value_id).v],
     registers |-> cached,
     deallocated_registers |-> {},
     next_register |-> MaxValueId + 1,
     status |-> "ok"]

\* define_variable that defines again an id the cache holds
define_variable_recached(c, value_id) ==
    Let([variable \in {allocate_value(c, value_id)} |->
    R([variable.c EXCEPT
           !.ssa_value_allocations = Extend(@, value_id, variable.v),
           !.available_variables = @ \cup {value_id}],
      variable.v)])

define_variable(c, value_id) ==
    Let([variable \in {allocate_value(c, value_id)} |->
    Let([inserted \in {[variable.c EXCEPT
                           !.ssa_value_allocations = Extend(@, value_id, variable.v)]} |->
    IF value_id \in DOMAIN c.ssa_value_allocations
        THEN R(Fail(inserted, "panic"), NoVariable)
    ELSE R([inserted EXCEPT !.available_variables = @ \cup {value_id}], variable.v)])])

\* define_single_addr_variable: define_variable, then the single address of
\* the variable, which only a SingleAddr variable has
define_single_addr_variable(c, value) ==
    Let([variable \in {define_variable(c, value)} |->
    IF ~IsOk(variable.c) THEN variable
    ELSE IF variable.v.kind # "SingleAddr" THEN R(Fail(variable.c, "panic"), NoVariable)
    ELSE variable])

remove_variable(c, value_id) ==
    IF value_id \notin c.available_variables THEN Fail(c, "panic")
    ELSE Let([removed \in {[c EXCEPT !.available_variables = @ \ {value_id}]} |->
         IF value_id \notin DOMAIN removed.ssa_value_allocations
             THEN Fail(removed, "panic")
         ELSE deallocate_register(removed,
                                  removed.ssa_value_allocations[value_id].register)])

is_allocated(c, value_id) == value_id \in c.available_variables

get_allocation(c, value_id) ==
    IF value_id \notin c.available_variables THEN R(Fail(c, "panic"), NoVariable)
    ELSE IF value_id \notin DOMAIN c.ssa_value_allocations
        THEN R(Fail(c, "panic"), NoVariable)
    ELSE R(c, c.ssa_value_allocations[value_id])

(***************************************************************************)
(* The block specification: a block over live-in ids that all have cached  *)
(* allocations, next to ids other blocks cached.  operands records what    *)
(* was live-in, how often each id was defined and which ids were removed   *)
(* since they became available.                                            *)
(***************************************************************************)
InitBlock ==
    /\ \E live_in \in SUBSET ValueIds :
       \E elsewhere \in SUBSET (ValueIds \ live_in) :
          /\ ctx = NewBlock(live_in, live_in \cup elsewhere)
          /\ operands = [live_in |-> live_in,
                         defined |-> [value_id \in ValueIds |-> 0],
                         removed |-> {}]
    /\ call = NoCall

DefineVariable(value_id) ==
    /\ IsOk(ctx)
    /\ operands.defined[value_id] < 2
    /\ ctx' = define_variable(ctx, value_id).c
    /\ call' = Call("define_variable", <<value_id>>, NoPayload,
                    <<define_variable(ctx, value_id).v>>, ctx)
    /\ operands' = IF IsOk(ctx')
                       THEN [operands EXCEPT !.defined[value_id] = @ + 1,
                                             !.removed = @ \ {value_id}]
                       ELSE operands

DefineSingleAddrVariable(value) ==
    /\ IsOk(ctx)
    /\ operands.defined[value] < 2
    /\ ctx' = define_single_addr_variable(ctx, value).c
    /\ call' = Call("define_single_addr_variable", <<value>>, NoPayload,
                    <<define_single_addr_variable(ctx, value).v>>, ctx)
    /\ operands' = IF IsOk(ctx')
                       THEN [operands EXCEPT !.defined[value] = @ + 1,
                                             !.removed = @ \ {value}]
                       ELSE operands

\* the register up to which a caller allocates values outside a definition
MaxRegister == 4

Types == {"Numeric", "Array", "Slice"}

AllocateValue(value_id) ==
    /\ IsOk(ctx)
    /\ ctx.next_register < MaxRegister
    /\ ctx' = allocate_value(ctx, value_id).c
    /\ call' = Call("allocate_value", <<value_id>>, NoPayload,
                    <<allocate_value(ctx, value_id).v>>, ctx)
    /\ UNCHANGED operands

AllocateValueWithType(typ) ==
    /\ IsOk(ctx)
    /\ ctx.next_register < MaxRegister
    /\ ctx' = allocate_value_with_type(ctx, typ).c
    /\ call' = Call("allocate_value_with_type", <<typ>>, NoPayload,
                    <<allocate_value_with_type(ctx, typ).v>>, ctx)
    /\ UNCHANGED operands

RemoveVariable(value_id) ==
    /\ IsOk(ctx)
    /\ ctx' = remove_variable(ctx, value_id)
    /\ call' = Call("remove_variable", <<value_id>>, NoPayload, << >>, ctx)
    /\ operands' = IF IsOk(ctx')
                       THEN [operands EXCEPT !.removed = @ \cup {value_id}]
                       ELSE operands

IsAllocated(value_id) ==
    /\ IsOk(ctx)
    /\ call' = Call("is_allocated", <<value_id>>, NoPayload,
                    <<is_allocated(ctx, value_id)>>, ctx)
    /\ UNCHANGED <<ctx, operands>>

GetAllocation(value_id) ==
    /\ IsOk(ctx)
    /\ ctx' = get_allocation(ctx, value_id).c
    /\ call' = Call("get_allocation", <<value_id>>, NoPayload,
                    <<get_allocation(ctx, value_id).v>>, ctx)
    /\ UNCHANGED operands

NextBlock ==
    \/ \E value_id \in ValueIds : DefineVariable(value_id)
    \/ \E value \in ValueIds : DefineSingleAddrVariable(value)
    \/ \E value_id \in ValueIds : AllocateValue(value_id)
    \/ \E typ \in Types : AllocateValueWithType(typ)
    \/ \E value_id \in ValueIds : RemoveVariable(value_id)
    \/ \E value_id \in ValueIds : IsAllocated(value_id)
    \/ \E value_id \in ValueIds : GetAllocation(value_id)

SpecBlock == InitBlock /\ [][NextBlock]_vars

\* the ids that were live-in or defined and have not since been removed
LiveOrDefined ==
    (operands.live_in \cup {value_id \in ValueIds : operands.defined[value_id] > 0})
        \ operands.removed

\* the last call was rejected
Rejected == ctx.status = "panic"

\* C30: an id is available (is_allocated) exactly when it was live-in or
\* defined and has not since been removed; every available id has an entry
\* in ssa_value_allocations, so get_allocation on an available id never
\* fails; removing or reading an id that is not available is rejected, and
\* so is defining an id that was defined before, even after its removal.
C30_AvailableVariables ==
    /\ IsOk(ctx) =>
          /\ \A value_id \in ValueIds :
                is_allocated(ctx, value_id) <=> value_id \in LiveOrDefined
          /\ ctx.available_variables \subseteq DOMAIN ctx.ssa_value_allocations
          /\ \A value_id \in ValueIds : operands.defined[value_id] <= 1
    /\ call.op = "is_allocated" =>
          call.ret[1] = (call.args[1] \in LiveOrDefined)
    /\ call.op = "get_allocation" =>
          /\ Rejected <=> call.args[1] \notin call.pre.available_variables
          /\ ~Rejected => call.ret[1] = ctx.ssa_value_allocations[call.args[1]]
    /\ call.op = "remove_variable" =>
          (Rejected <=> call.args[1] \notin call.pre.available_variables)
    /\ (call.op = "define_variable" /\ ~Rejected) =>
          call.ret[1] = ctx.ssa_value_allocations[call.args[1]]

\* an id was defined, removed, and its definition again was rejected
C30_Witness ==
    /\ call.op = "define_variable" /\ Rejected
    /\ operands.defined[call.args[1]] = 1
    /\ call.args[1] \in operands.removed
    /\ ~is_allocated(ctx, call.args[1])

====
